---- MODULE Spec2Model ----
(***************************************************************************)
(* Model of the car scraper's ingestion core: the RateLimiter              *)
(* (security/rate-limiter), the SecurityMonitor (security/monitor), the    *)
(* DataValidator (security/validator), the source aggregator (routes) and  *)
(* the run orchestrator (main).                                            *)
(*                                                                         *)
(* Time is the wall clock Date.now() in milliseconds; it advances in steps *)
(* of TickMs.  Fractional quantities are held as scaled integers:          *)
(* config.requestsPerMinute in halves (RpmScale) because adaptiveLimit     *)
(* halves it, backoffMultiplier in 1/BackoffScale because it grows by 1.5. *)
(***************************************************************************)
EXTENDS Integers, Sequences, FiniteSets, TLC

\* ---------------------------------------------------------------- bounds
TickMs == 30000
MaxTicks == 2
MaxTimestamps == 4
MaxAdmissions == 6
MaxStreak == 2
MaxFailures == 7
SmallRequestsPerMinute == 3
SmallConcurrentRequests == 2
OddRequestsPerMinute == 11
MaxStack == 11
MaxAuditCalls == 3
BurstSize == 30
MaxStrLen == 2
FirstYear == 2026
MaxYears == 1
MaxCacheEntries == 2
MaxFragments == 3
MaxSources == 2
MaxCars == 5
MaxModels == 2
MaxReportIncidents == 21
MaxReportRequests == 10

\* ------------------------------------------------------ program constants
WindowMs == 60000
DefaultBaseDelay == 2000
DefaultMaxDelay == 10000
DefaultJitter == 1000
DefaultRequestsPerMinute == 30
DefaultConcurrentRequests == 5
RpmScale == 2
BackoffScale == 100000

MaxRequestsPerMinute == 30
MaxConsecutiveFailures == 5
MaxSecurityIncidents == 10
DefaultSeverity == 2
IncidentSeverity == 3

MinYear == 1990
YearsAhead == 2
MaxPrice == 1000000
MaxHorsepower == 2000
MaxMpg == 100
MaxSanitizedLen == 200
DefaultEstimate == 35000
DefaultRateLimitDelay == 2000
MaxCompetitors == 3
MaxPriceDifference == 15000
BudgetBelow == 30000
MidrangeBelow == 50000
PremiumBelow == 80000
MaxResultsLimit == 1000
MinRateLimitDelay == 500
MaxRateLimitDelay == 10000

Callers == {"c1", "c2"}
TaskErrors == {"E1", "E2"}

Max(a, b) == IF a >= b THEN a ELSE b
Min(a, b) == IF a <= b THEN a ELSE b

RECURSIVE Pow2(_)
Pow2(n) == IF n = 0 THEN 1 ELSE 2 * Pow2(n - 1)

VARIABLES
    now,                 \* Date.now()
    \* RateLimiter fields
    config,              \* this.config
    requestTimestamps,   \* this.requestTimestamps
    activeRequests,      \* this.activeRequests
    consecutiveFailures, \* this.consecutiveFailures
    backoffMultiplier,   \* this.backoffMultiplier, in 1/BackoffScale
    \* callers of RateLimiter.execute
    pc,                  \* position of each execute() call
    call,                \* per call: what the call observed and did
    \* observations of the primitive calls
    lastCheck,           \* result of the latest direct canMakeRequest(): "true", "false", or "none"
    contractKept,        \* every direct addRequestTimestamp() followed a true check
    lastDelay,           \* value returned by the latest calculateDelay()
    \* SecurityMonitor fields
    auditLog,            \* this.auditLog
    securityIncidents,   \* this.securityIncidents
    sessionId,           \* this.sessionId
    requestCount,        \* this.requestCount
    blockedCount,        \* this.blockedCount
    retryCount,          \* this.retryCount
    \* observations of the SecurityMonitor calls
    lastLog,             \* outcome of the latest logEvent() made by a caller
    auditCalls,          \* number of calls made on the monitor
    \* DataValidator fields
    validationCache,     \* this.validationCache: cache key -> result
    currentYear,         \* new Date().getFullYear()
    \* observations of the validateCarData calls
    lastInput,           \* content of the record passed to the latest call
    lastResult,          \* the result object the latest call returned
    lastKey,             \* cache key that holds the lastResult object, or NoKey
    prevResult,          \* the result returned by the call before the latest
    revalidated,         \* the latest call validated the data of prevResult
    \* scrapeCarDetails: one call
    carDetails,          \* carData of scrapeCarDetails: the record being built
    sourceCount,         \* sources.length
    sourceIdx,           \* index of the source being awaited
    detailPc,            \* "idle", "source" (a source fetch is in flight) or "returned"
    tried,               \* what each source tried so far gave: [kind, fragment]
    \* main(): one run
    runPc,               \* "idle", "failed", "loop", "models", "details", "checkpoint", "push",
                         \* "done", "crashed"
    input,               \* Actor.getInput()
    keyAccepted,         \* the cipher accepts the encryption key of the environment
    mIdx,                \* position of the manufacturer loop
    models,              \* scrapeManufacturer: models.slice(0, maxPerManufacturer)
    modelIdx,            \* scrapeManufacturer: position of the model loop
    cars,                \* scrapeManufacturer: cars
    allCars,             \* main: allCars
    processedCount,      \* main: processedCount
    progress,            \* the values written by Actor.setValue('progress', ...)
    output,              \* the values pushed by Actor.pushData
    priceGroups,         \* addCompetitorAnalysis: groupCarsByPrice(cars)
    visits               \* per finished loop iteration: [manufacturer, outcome, found, total]

limiterVars == <<config, requestTimestamps, activeRequests, consecutiveFailures,
                 backoffMultiplier, pc, call, lastCheck, contractKept, lastDelay>>

auditVars == <<auditLog, securityIncidents, sessionId, requestCount, blockedCount,
               retryCount, lastLog, auditCalls>>

validatorVars == <<validationCache, currentYear, lastInput, lastResult, lastKey,
                   prevResult, revalidated>>

detailVars == <<carDetails, sourceCount, sourceIdx, detailPc, tried>>

runVars == <<runPc, input, keyAccepted, mIdx, models, modelIdx, cars, allCars,
             processedCount, progress, output, priceGroups, visits>>

vars == <<now, limiterVars, auditVars, validatorVars, detailVars, runVars>>

\* ------------------------------------------------------------ RateLimiter

\* one slot, so that two callers contend for it
SingleSlotArg == [requestsPerMinute |-> SmallRequestsPerMinute, concurrentRequests |-> 1]

\* an odd ceiling, which the captcha signal halves to a fraction
OddCeilingArg == [requestsPerMinute |-> OddRequestsPerMinute]

\* the config argument of the constructor: {} as main() passes it, or an
\* object that sets one or both ceilings
ConstructorArgs ==
    { [f \in {} |-> 0],
      [requestsPerMinute |-> SmallRequestsPerMinute],
      [concurrentRequests |-> SmallConcurrentRequests],
      [requestsPerMinute |-> SmallRequestsPerMinute,
       concurrentRequests |-> SmallConcurrentRequests],
      SingleSlotArg, OddCeilingArg }

\* this.config = { baseDelay: config.baseDelay || 2000, ..., ...config }
constructorConfig(arg) ==
    LET opt(f, d) == IF f \in DOMAIN arg THEN arg[f] ELSE d
    IN [baseDelay |-> opt("baseDelay", DefaultBaseDelay),
        maxDelay |-> opt("maxDelay", DefaultMaxDelay),
        jitter |-> opt("jitter", DefaultJitter),
        requestsPerMinute |-> opt("requestsPerMinute", DefaultRequestsPerMinute) * RpmScale,
        concurrentRequests |-> opt("concurrentRequests", DefaultConcurrentRequests)]

\* constructor(config = {})
RateLimiterInit ==
    /\ \E arg \in ConstructorArgs : config = constructorConfig(arg)
    /\ requestTimestamps = <<>>
    /\ activeRequests = 0
    /\ consecutiveFailures = 0
    /\ backoffMultiplier = BackoffScale

NoCall == [preActive |-> 0, preFailures |-> 0, admits |-> 0, releases |-> 0,
           checked |-> FALSE, error |-> "none", thrown |-> "none"]

\* the timestamps the filter of canMakeRequest / getStats keeps
recentTimestamps(ts, t) == SelectSeq(ts, LAMBDA x : x > t - WindowMs)

\* canMakeRequest() with the concurrency test written > instead of >=
canMakeRequestValueOffByOne(active, ts, cfg, t) ==
    IF active > cfg.concurrentRequests THEN FALSE
    ELSE IF Len(recentTimestamps(ts, t)) * RpmScale >= cfg.requestsPerMinute THEN FALSE
    ELSE TRUE

\* canMakeRequest() without the test of the concurrency ceiling
canMakeRequestValueNoConcurrency(active, ts, cfg, t) ==
    IF Len(recentTimestamps(ts, t)) * RpmScale >= cfg.requestsPerMinute THEN FALSE
    ELSE TRUE

\* canMakeRequest(): the value it returns
canMakeRequestValue(active, ts, cfg, t) ==
    IF active >= cfg.concurrentRequests THEN FALSE
    ELSE IF Len(recentTimestamps(ts, t)) * RpmScale >= cfg.requestsPerMinute THEN FALSE
    ELSE TRUE

\* canMakeRequest(): this.requestTimestamps after the call
canMakeRequestTimestamps(active, ts, cfg, t) ==
    IF active >= cfg.concurrentRequests THEN ts
    ELSE recentTimestamps(ts, t)

\* completeRequest() that forgets the decrement
completeRequestValueNoop(active) == active

\* completeRequest(): the new activeRequests
completeRequestValue(active) == Max(0, active - 1)

\* calculateDelay() without the cap at maxDelay
calculateDelayValueNoCap(cfg, failures) ==
    IF failures > 0
    THEN cfg.baseDelay * Pow2(Min(failures, 5))
    ELSE cfg.baseDelay

\* calculateDelay(): the value it returns
calculateDelayValue(cfg, failures) ==
    LET delay == IF failures > 0
                 THEN cfg.baseDelay * Pow2(Min(failures, 5))
                 ELSE cfg.baseDelay
    IN Min(delay, cfg.maxDelay)

\* calculateDelay(): this.backoffMultiplier after the call
calculateDelayBackoff(failures, backoff) ==
    IF failures > 0
    THEN Min(10 * BackoffScale, (backoff * 3) \div 2)
    ELSE backoff

AllIdle == \A c \in Callers : pc[c] = "idle"

\* direct call of canMakeRequest()
canMakeRequest ==
    /\ lastCheck' = IF canMakeRequestValue(activeRequests, requestTimestamps, config, now)
                    THEN "true" ELSE "false"
    /\ requestTimestamps' =
           canMakeRequestTimestamps(activeRequests, requestTimestamps, config, now)
    /\ UNCHANGED <<now, config, activeRequests, consecutiveFailures,
                   backoffMultiplier, pc, call, contractKept, lastDelay>>

\* direct call of addRequestTimestamp()
addRequestTimestamp ==
    /\ Len(requestTimestamps) < MaxTimestamps
    /\ requestTimestamps' = Append(requestTimestamps, now)
    /\ activeRequests' = activeRequests + 1
    /\ contractKept' = (contractKept /\ lastCheck = "true")
    /\ lastCheck' = "none"
    /\ UNCHANGED <<now, config, consecutiveFailures, backoffMultiplier,
                   pc, call, lastDelay>>

\* direct call of completeRequest()
completeRequest ==
    /\ activeRequests' = completeRequestValue(activeRequests)
    /\ UNCHANGED <<now, config, requestTimestamps, consecutiveFailures,
                   backoffMultiplier, pc, call, lastCheck, contractKept, lastDelay>>

\* direct call of calculateDelay()
calculateDelay ==
    /\ lastDelay' = calculateDelayValue(config, consecutiveFailures)
    /\ backoffMultiplier' = calculateDelayBackoff(consecutiveFailures, backoffMultiplier)
    /\ UNCHANGED <<now, config, requestTimestamps, activeRequests,
                   consecutiveFailures, pc, call, lastCheck, contractKept>>

\* direct call of recordSuccess()
recordSuccess ==
    /\ consecutiveFailures' = 0
    /\ backoffMultiplier' = BackoffScale
    /\ UNCHANGED <<now, config, requestTimestamps, activeRequests,
                   pc, call, lastCheck, contractKept, lastDelay>>

\* direct call of recordFailure()
recordFailure ==
    /\ consecutiveFailures < MaxFailures
    /\ consecutiveFailures' = consecutiveFailures + 1
    /\ UNCHANGED <<now, config, requestTimestamps, activeRequests,
                   backoffMultiplier, pc, call, lastCheck, contractKept, lastDelay>>

\* getStats(): reads the fields and calls calculateDelay()
getStats ==
    /\ lastDelay' = calculateDelayValue(config, consecutiveFailures)
    /\ backoffMultiplier' = calculateDelayBackoff(consecutiveFailures, backoffMultiplier)
    /\ UNCHANGED <<now, config, requestTimestamps, activeRequests,
                   consecutiveFailures, pc, call, lastCheck, contractKept>>

\* reset()
reset ==
    /\ requestTimestamps' = <<>>
    /\ activeRequests' = 0
    /\ consecutiveFailures' = 0
    /\ backoffMultiplier' = BackoffScale
    /\ UNCHANGED <<now, config, pc, call, lastCheck, contractKept, lastDelay>>

\* adaptiveLimit(conditions): the new config
adaptiveLimitConfig(cfg, captchaDetected, ipBlocked, lowSuccessRate) ==
    LET c1 == IF captchaDetected
              THEN [cfg EXCEPT !.baseDelay = Min(cfg.baseDelay * 2, 10000),
                               !.requestsPerMinute =
                                   Max(5 * RpmScale, cfg.requestsPerMinute \div 2)]
              ELSE cfg
        c2 == IF ipBlocked
              THEN [c1 EXCEPT !.baseDelay = 10000,
                              !.requestsPerMinute = 1 * RpmScale]
              ELSE c1
        c3 == IF lowSuccessRate
              THEN [c2 EXCEPT !.baseDelay = Min((c2.baseDelay * 3) \div 2, 5000)]
              ELSE c2
    IN c3

\* adaptiveLimit(conditions); lowSuccessRate is conditions.successRate < 0.5
adaptiveLimitCall(captchaDetected, ipBlocked, lowSuccessRate) ==
    /\ config' = adaptiveLimitConfig(config, captchaDetected, ipBlocked, lowSuccessRate)
    /\ UNCHANGED <<now, requestTimestamps, activeRequests, consecutiveFailures,
                   backoffMultiplier, pc, call, lastCheck, contractKept, lastDelay>>

\* adaptiveLimit(conditions) under every combination of the three signals
adaptiveLimit ==
    \E captchaDetected, ipBlocked, lowSuccessRate \in BOOLEAN :
        adaptiveLimitCall(captchaDetected, ipBlocked, lowSuccessRate)

\* execute(requestFn) is entered
executeCall(c) ==
    /\ pc[c] = "idle"
    /\ pc' = [pc EXCEPT ![c] = "poll"]
    /\ call' = [call EXCEPT ![c] = [NoCall EXCEPT !.preActive = activeRequests,
                                                  !.preFailures = consecutiveFailures]]
    /\ UNCHANGED <<now, config, requestTimestamps, activeRequests,
                   consecutiveFailures, backoffMultiplier, lastCheck,
                   contractKept, lastDelay>>

\* while (!this.canMakeRequest()) { await this.delay(100) }: the check fails
executePollBlocked(c) ==
    /\ pc[c] = "poll"
    /\ ~canMakeRequestValue(activeRequests, requestTimestamps, config, now)
    /\ requestTimestamps' =
           canMakeRequestTimestamps(activeRequests, requestTimestamps, config, now)
    /\ pc' = [pc EXCEPT ![c] = "delay"]
    /\ UNCHANGED <<now, config, activeRequests, consecutiveFailures,
                   backoffMultiplier, call, lastCheck, contractKept, lastDelay>>

\* the timer of delay(100) fires
executeDelayDone(c) ==
    /\ pc[c] = "delay"
    /\ pc' = [pc EXCEPT ![c] = "poll"]
    /\ UNCHANGED <<now, config, requestTimestamps, activeRequests,
                   consecutiveFailures, backoffMultiplier, call, lastCheck,
                   contractKept, lastDelay>>

\* the check succeeds; addRequestTimestamp() follows in the same turn
executeAdmit(c) ==
    /\ pc[c] = "poll"
    /\ canMakeRequestValue(activeRequests, requestTimestamps, config, now)
    /\ Len(requestTimestamps) < MaxAdmissions
    /\ requestTimestamps' =
           Append(canMakeRequestTimestamps(activeRequests, requestTimestamps, config, now),
                  now)
    /\ activeRequests' = activeRequests + 1
    /\ pc' = [pc EXCEPT ![c] = "task"]
    /\ call' = [call EXCEPT ![c].admits = @ + 1,
                            ![c].checked =
                                canMakeRequestValue(activeRequests, requestTimestamps,
                                                    config, now)]
    /\ lastCheck' = "none"
    /\ UNCHANGED <<now, config, consecutiveFailures, backoffMultiplier,
                   contractKept, lastDelay>>

\* await requestFn() resolves: completeRequest(); recordSuccess(); return
executeResolve(c) ==
    /\ pc[c] = "task"
    /\ activeRequests' = completeRequestValue(activeRequests)
    /\ consecutiveFailures' = 0
    /\ backoffMultiplier' = BackoffScale
    /\ pc' = [pc EXCEPT ![c] = "returned"]
    /\ call' = [call EXCEPT ![c].releases = @ + 1]
    /\ UNCHANGED <<now, config, requestTimestamps, lastCheck, contractKept, lastDelay>>

\* await requestFn() rejects: completeRequest(); recordFailure(); throw error
executeReject(c) ==
    /\ pc[c] = "task"
    /\ consecutiveFailures < MaxFailures
    /\ \E e \in TaskErrors :
           call' = [call EXCEPT ![c].releases = @ + 1, ![c].error = e, ![c].thrown = e]
    /\ activeRequests' = completeRequestValue(activeRequests)
    /\ consecutiveFailures' = consecutiveFailures + 1
    /\ pc' = [pc EXCEPT ![c] = "threw"]
    /\ UNCHANGED <<now, config, requestTimestamps, backoffMultiplier, lastCheck,
                   contractKept, lastDelay>>

\* the caller has taken the result
executeDone(c) ==
    /\ pc[c] \in {"returned", "threw"}
    /\ pc' = [pc EXCEPT ![c] = "idle"]
    /\ call' = [call EXCEPT ![c] = NoCall]
    /\ UNCHANGED <<now, config, requestTimestamps, activeRequests,
                   consecutiveFailures, backoffMultiplier, lastCheck,
                   contractKept, lastDelay>>

\* -------------------------------------------------------- SecurityMonitor

\* constructor()
SecurityMonitorInit ==
    /\ auditLog = <<>>
    /\ securityIncidents = <<>>
    /\ sessionId = "null"
    /\ requestCount = 0
    /\ blockedCount = 0
    /\ retryCount = 0
    /\ lastLog = [result |-> "none", rateExceeded |-> FALSE, rateEvents |-> 0]
    /\ auditCalls = 0

\* event types a caller passes to logEvent() directly
LoggedTypes == {"ip_blocked", "security_violation", "manufacturer_error"}

\* getEventSeverity() that gives every type the default
getEventSeverityDefaultOnly(eventType) == DefaultSeverity

\* getEventSeverity(eventType): severityMap[eventType] || 2
getEventSeverity(eventType) ==
    CASE eventType = "session_created" -> 1
      [] eventType = "request_made" -> 1
      [] eventType = "retry_attempt" -> 2
      [] eventType = "request_blocked" -> 3
      [] eventType = "captcha_detected" -> 3
      [] eventType = "ip_blocked" -> 4
      [] eventType = "rate_limit_exceeded" -> 3
      [] eventType = "security_violation" -> 5
      [] OTHER -> DefaultSeverity

\* the request_made events of the trailing minute, as checkThresholds filters them
recentRequests(log, t) ==
    SelectSeq(log, LAMBDA e : e.type = "request_made" /\ e.timestamp > t - WindowMs)

\* number of events of one type in a log
countType(log, eventType) == Len(SelectSeq(log, LAMBDA e : e.type = eventType))

\* checkThresholds(): the request-rate condition
rateExceeded(log, t) == Len(recentRequests(log, t)) > MaxRequestsPerMinute

\* checkThresholds(): the incident-count condition
incidentsExceeded(inc) == Len(inc) > MaxSecurityIncidents

\* logEvent(eventType) entered at call depth `depth`, together with the
\* checkThresholds() it ends with, which calls logEvent again at depth + 1.
\* A call entered deeper than MaxStack finds no stack left: RangeError, which
\* no frame catches.  The result is the two lists and whether it threw.
RECURSIVE logEventRun(_, _, _, _, _, _)
RECURSIVE checkThresholdsRun(_, _, _, _, _)
logEventRun(log, inc, eventType, t, sid, depth) ==
    IF depth > MaxStack
    THEN [log |-> log, inc |-> inc, threw |-> TRUE]
    ELSE LET event == [type |-> eventType, timestamp |-> t, sessionId |-> sid,
                       severity |-> getEventSeverity(eventType)]
             log1 == Append(log, event)
             inc1 == IF event.severity >= IncidentSeverity THEN Append(inc, event) ELSE inc
         IN checkThresholdsRun(log1, inc1, t, sid, depth)

checkThresholdsRun(log, inc, t, sid, depth) ==
    LET r1 == IF rateExceeded(log, t)
              THEN logEventRun(log, inc, "rate_limit_exceeded", t, sid, depth + 1)
              ELSE [log |-> log, inc |-> inc, threw |-> FALSE]
    IN IF r1.threw THEN r1
       ELSE IF incidentsExceeded(r1.inc)
            THEN logEventRun(r1.log, r1.inc, "security_threshold_exceeded", t, sid,
                             depth + 1)
            ELSE r1

\* what a caller of logEvent(eventType) observes of the call
logOutcome(log, r, eventType, t) ==
    [result |-> IF r.threw THEN "RangeError" ELSE "id",
     rateExceeded |->
         rateExceeded(Append(log, [type |-> eventType, timestamp |-> t,
                                   sessionId |-> "null",
                                   severity |-> getEventSeverity(eventType)]), t),
     rateEvents |-> countType(r.log, "rate_limit_exceeded")
                        - countType(log, "rate_limit_exceeded")]

\* a call of logEvent(eventType) by a caller: the effect on the two lists
logEventCall(eventType, sid) ==
    LET r == logEventRun(auditLog, securityIncidents, eventType, now, sid, 0)
    IN /\ auditLog' = r.log
       /\ securityIncidents' = r.inc
       /\ lastLog' = logOutcome(auditLog, r, eventType, now)
       /\ auditCalls' = auditCalls + 1

\* logEvent(eventType, details) called from outside the monitor
logEvent ==
    /\ auditCalls < MaxAuditCalls
    /\ \E eventType \in LoggedTypes : logEventCall(eventType, sessionId)
    /\ UNCHANGED <<sessionId, requestCount, blockedCount, retryCount>>

\* setSessionId(sessionId)
setSessionId ==
    /\ auditCalls < MaxAuditCalls
    /\ sessionId' = "s1"
    /\ logEventCall("session_created", "s1")
    /\ UNCHANGED <<requestCount, blockedCount, retryCount>>

\* trackRequest(url)
trackRequest ==
    /\ auditCalls < MaxAuditCalls
    /\ requestCount' = requestCount + 1
    /\ logEventCall("request_made", sessionId)
    /\ UNCHANGED <<sessionId, blockedCount, retryCount>>

\* trackBlockedRequest(url, reason)
trackBlockedRequest ==
    /\ auditCalls < MaxAuditCalls
    /\ blockedCount' = blockedCount + 1
    /\ logEventCall("request_blocked", sessionId)
    /\ UNCHANGED <<sessionId, requestCount, retryCount>>

\* trackRetry(url, attempt)
trackRetry ==
    /\ auditCalls < MaxAuditCalls
    /\ retryCount' = retryCount + 1
    /\ logEventCall("retry_attempt", sessionId)
    /\ UNCHANGED <<sessionId, requestCount, blockedCount>>

\* finalAudit()
finalAudit ==
    /\ auditCalls < MaxAuditCalls
    /\ logEventCall("final_audit", sessionId)
    /\ UNCHANGED <<sessionId, requestCount, blockedCount, retryCount>>

\* n trackRequest() calls in a row, stopping at the first that throws
RECURSIVE trackRequestRun(_, _, _, _)
trackRequestRun(st, n, t, sid) ==
    IF n = 0 \/ st.last.result = "RangeError" THEN st
    ELSE LET r == logEventRun(st.log, st.inc, "request_made", t, sid, 0)
         IN trackRequestRun([log |-> r.log, inc |-> r.inc, count |-> st.count + 1,
                             last |-> logOutcome(st.log, r, "request_made", t)],
                            n - 1, t, sid)

\* a caller's loop issuing BurstSize trackRequest() calls within one clock step
trackRequestBurst ==
    /\ auditCalls < MaxAuditCalls
    /\ LET st == trackRequestRun([log |-> auditLog, inc |-> securityIncidents,
                                  count |-> requestCount,
                                  last |-> [result |-> "none", rateExceeded |-> FALSE,
                                            rateEvents |-> 0]],
                                 BurstSize, now, sessionId)
       IN /\ auditLog' = st.log
          /\ securityIncidents' = st.inc
          /\ requestCount' = st.count
          /\ lastLog' = st.last
    /\ auditCalls' = auditCalls + 1
    /\ UNCHANGED <<sessionId, blockedCount, retryCount>>

\* ---------------------------------------------------------- DataValidator

\* JavaScript values: a tag t and, by tag, a number v, a string s (a sequence
\* of characters), an object o (a function from its keys) or an array a
Undef == [t |-> "undefined"]
Null == [t |-> "null"]
Infinity == [t |-> "inf"]
Num(n) == [t |-> "num", v |-> n]
Str(chars) == [t |-> "string", s |-> chars]
Obj(f) == [t |-> "object", o |-> f]
Arr(items) == [t |-> "array", a |-> items]
Bool(b) == [t |-> "bool", v |-> b]
EmptyObject == [k \in {} |-> Undef]

\* the characters of the strings: a letter, a blank, a character of the class
\* [<>"'], and the two characters "d" ":" that stand for a malicious pattern
\* such as data: (removed wherever they follow each other)
Chars == {"a", " ", "'", "d", ":"}
Pattern == <<"d", ":">>

Strings == UNION {[1..n -> Chars] : n \in 0..MaxStrLen}

\* obj[key], undefined when the object lacks the key
Get(obj, key) == IF key \in DOMAIN obj THEN obj[key] ELSE Undef

\* obj?.[key] of a value that may not be an object
GetIn(value, key) == IF value.t = "object" THEN Get(value.o, key) ELSE Undef

\* the truthiness of a value in a condition
Truthy(value) ==
    CASE value.t = "undefined" -> FALSE
      [] value.t = "null" -> FALSE
      [] value.t = "num" -> value.v # 0
      [] value.t = "string" -> value.s # <<>>
      [] value.t = "bool" -> value.v
      [] OTHER -> TRUE

\* String.prototype.trim
RECURSIVE TrimLeft(_)
TrimLeft(chars) ==
    IF chars # <<>> /\ Head(chars) = " " THEN TrimLeft(Tail(chars)) ELSE chars

RECURSIVE TrimRight(_)
TrimRight(chars) ==
    IF chars # <<>> /\ chars[Len(chars)] = " "
    THEN TrimRight(SubSeq(chars, 1, Len(chars) - 1)) ELSE chars

Trim(chars) == TrimRight(TrimLeft(chars))

\* sanitizeString(input): trim, drop [<>"'], keep the first 200 characters
sanitizeString(value) ==
    IF value.t # "string" THEN value
    ELSE LET stripped == SelectSeq(Trim(value.s), LAMBDA ch : ch # "'")
         IN Str(SubSeq(stripped, 1, Min(Len(stripped), MaxSanitizedLen)))

\* cleaned.replace(pattern, '') with a global pattern: one pass, left to right
RECURSIVE removePattern(_)
removePattern(chars) ==
    IF Len(chars) < Len(Pattern) THEN chars
    ELSE IF SubSeq(chars, 1, Len(Pattern)) = Pattern
         THEN removePattern(SubSeq(chars, Len(Pattern) + 1, Len(chars)))
         ELSE <<Head(chars)>> \o removePattern(Tail(chars))

\* removeMaliciousContent(data): cleanData over the whole tree
RECURSIVE cleanData(_)
cleanData(value) ==
    CASE value.t = "string" -> Str(removePattern(value.s))
      [] value.t = "array" -> Arr([i \in 1..Len(value.a) |-> cleanData(value.a[i])])
      [] value.t = "object" -> Obj([k \in DOMAIN value.o |-> cleanData(value.o[k])])
      [] OTHER -> value

\* JSON.stringify(value): a key with an undefined value is left out, a
\* non-finite number is written null, an undefined array item is written null
RECURSIVE jsonStringify(_)
jsonStringify(value) ==
    CASE value.t = "inf" -> Null
      [] value.t = "array" ->
             Arr([i \in 1..Len(value.a) |->
                     IF value.a[i].t = "undefined" THEN Null
                     ELSE jsonStringify(value.a[i])])
      [] value.t = "object" ->
             Obj([k \in {j \in DOMAIN value.o : value.o[j].t # "undefined"} |->
                     jsonStringify(value.o[k])])
      [] OTHER -> value

\* a number outside lo..hi, or not a number (isNaN(x) || x < lo || x > hi)
OutOfRange(value, lo, hi) ==
    CASE value.t = "num" -> value.v < lo \/ value.v > hi
      [] value.t = "inf" -> TRUE
      [] OTHER -> TRUE

Message(text) == [msg |-> text, arg |-> 0]

\* a required string field is missing: !x || x.trim() === ''
MissingString(value) ==
    \/ ~Truthy(value)
    \/ value.t = "string" /\ Trim(value.s) = <<>>

\* validateCarData(): the errors list
validationErrors(carData, year) ==
    (IF MissingString(Get(carData, "manufacturer"))
     THEN <<Message("Manufacturer is required")>> ELSE <<>>)
    \o (IF MissingString(Get(carData, "model"))
        THEN <<Message("Model is required")>> ELSE <<>>)
    \o (IF Truthy(Get(carData, "year"))
           /\ OutOfRange(Get(carData, "year"), MinYear, year + YearsAhead)
        THEN <<[msg |-> "Year must be between 1990 and", arg |-> year + YearsAhead]>>
        ELSE <<>>)
    \o (IF Truthy(GetIn(Get(carData, "price"), "starting_msrp"))
           /\ OutOfRange(GetIn(Get(carData, "price"), "starting_msrp"), 0, MaxPrice)
        THEN <<Message("Price must be between 0 and 1,000,000")>> ELSE <<>>)

\* validateCarData(): the warnings list
validationWarnings(carData) ==
    (IF Truthy(Get(carData, "year")) THEN <<>> ELSE <<Message("Year is missing")>>)
    \o (IF Truthy(GetIn(Get(carData, "price"), "starting_msrp")) THEN <<>>
        ELSE <<Message("Price is missing or estimated")>>)
    \o (IF Truthy(GetIn(Get(carData, "performance"), "horsepower"))
           /\ OutOfRange(GetIn(Get(carData, "performance"), "horsepower"), 0, MaxHorsepower)
        THEN <<Message("Horsepower value seems unrealistic")>> ELSE <<>>)
    \o (IF Truthy(GetIn(Get(carData, "fuel_economy"), "combined"))
           /\ OutOfRange(GetIn(Get(carData, "fuel_economy"), "combined"), 0, MaxMpg)
        THEN <<Message("Fuel economy value seems unrealistic")>> ELSE <<>>)

\* validateCarData(): carData after the two sanitizeString assignments
sanitizeInPlace(carData) ==
    LET c1 == IF Truthy(Get(carData, "manufacturer"))
              THEN [carData EXCEPT !["manufacturer"] = sanitizeString(@)]
              ELSE carData
    IN IF Truthy(Get(c1, "model"))
       THEN [c1 EXCEPT !["model"] = sanitizeString(@)]
       ELSE c1

\* Object.keys(value).length > 0 of a truthy value
HasKeys(value) ==
    CASE value.t = "object" -> DOMAIN value.o # {}
      [] value.t = "array" -> value.a # <<>>
      [] value.t = "string" -> value.s # <<>>
      [] OTHER -> FALSE

\* the weights of calculateValidationScore, in the order of Object.entries
Weights ==
    <<[field |-> "manufacturer", weight |-> 15, keyed |-> FALSE],
      [field |-> "model", weight |-> 15, keyed |-> FALSE],
      [field |-> "year", weight |-> 10, keyed |-> FALSE],
      [field |-> "price", weight |-> 20, keyed |-> TRUE],
      [field |-> "performance", weight |-> 15, keyed |-> TRUE],
      [field |-> "specifications", weight |-> 10, keyed |-> TRUE],
      [field |-> "features", weight |-> 10, keyed |-> FALSE],
      [field |-> "dimensions", weight |-> 5, keyed |-> FALSE]>>

RECURSIVE scoreFrom(_, _)
scoreFrom(carData, i) ==
    IF i > Len(Weights) THEN 0
    ELSE LET w == Weights[i]
             value == Get(carData, w.field)
             counts == IF w.keyed THEN Truthy(value) /\ HasKeys(value)
                       ELSE Truthy(value)
         IN (IF counts THEN w.weight ELSE 0) + scoreFrom(carData, i + 1)

\* calculateValidationScore(carData)
calculateValidationScore(carData) == Min(100, scoreFrom(carData, 1))

\* validateCarData() on a cache miss: the result object it builds
validateCarDataResult(carData, year) ==
    LET errors == validationErrors(carData, year)
        sanitizedData == cleanData(Obj(sanitizeInPlace(carData))).o
    IN [valid |-> errors = <<>>,
        errors |-> errors,
        warnings |-> validationWarnings(carData),
        data |-> sanitizedData,
        score |-> calculateValidationScore(sanitizedData)]

\* the cache key of a record
cacheKey(carData) == jsonStringify(Obj(carData))

NoKey == Null
NoRecord == EmptyObject
NoResult == [valid |-> FALSE, errors |-> <<>>, warnings |-> <<>>,
             data |-> NoRecord, score |-> -1]

\* constructor()
DataValidatorInit ==
    /\ validationCache = [k \in {} |-> NoResult]
    /\ currentYear = FirstYear
    /\ lastInput = NoRecord
    /\ lastResult = NoResult
    /\ lastKey = NoKey
    /\ prevResult = NoResult
    /\ revalidated = FALSE

\* validateCarData(carData) called with a new object of the given content
validateCarData(carData) ==
    LET key == cacheKey(carData)
    IN /\ lastInput' = carData
       /\ prevResult' = lastResult
       /\ revalidated' = FALSE
       /\ lastKey' = key
       /\ IF key \in DOMAIN validationCache
          THEN /\ lastResult' = validationCache[key]
               /\ UNCHANGED validationCache
          ELSE /\ Cardinality(DOMAIN validationCache) < MaxCacheEntries
               /\ lastResult' = validateCarDataResult(carData, currentYear)
               /\ validationCache' =
                      [k \in DOMAIN validationCache \cup {key} |->
                          IF k = key THEN validateCarDataResult(carData, currentYear)
                          ELSE validationCache[k]]
       /\ UNCHANGED currentYear

\* validateCarData(result.data) called with the data object of the latest
\* result; on a miss the two sanitizeString assignments write into that
\* object, which the cache entry lastKey still refers to
validateResultData ==
    LET carData == lastResult.data
        key == cacheKey(carData)
        held == IF lastKey \in DOMAIN validationCache
                THEN [validationCache EXCEPT ![lastKey].data = sanitizeInPlace(carData)]
                ELSE validationCache
    IN /\ lastResult # NoResult
       /\ lastInput' = carData
       /\ prevResult' = lastResult
       /\ revalidated' = TRUE
       /\ lastKey' = key
       /\ IF key \in DOMAIN validationCache
          THEN /\ lastResult' = validationCache[key]
               /\ UNCHANGED validationCache
          ELSE /\ Cardinality(DOMAIN validationCache) < MaxCacheEntries
               /\ lastResult' = validateCarDataResult(carData, currentYear)
               /\ validationCache' =
                      [k \in DOMAIN held \cup {key} |->
                          IF k = key THEN validateCarDataResult(carData, currentYear)
                          ELSE held[k]]
       /\ UNCHANGED currentYear

\* clearCache()
clearCache ==
    /\ validationCache' = [k \in {} |-> NoResult]
    /\ lastKey' = NoKey
    /\ UNCHANGED <<currentYear, lastInput, lastResult, prevResult, revalidated>>

\* the year of the wall clock changes
NewYear ==
    /\ currentYear < FirstYear + MaxYears
    /\ currentYear' = currentYear + 1
    /\ UNCHANGED <<validationCache, lastInput, lastResult, lastKey, prevResult,
                   revalidated>>

\* a car record with the fields the validator reads
CarRecord(manufacturer, model, year, price, performance, fuel_economy) ==
    [manufacturer |-> manufacturer, model |-> model, year |-> year, price |-> price,
     performance |-> performance, fuel_economy |-> fuel_economy]

StringValues == {Undef} \cup {Str(chars) : chars \in Strings}
YearValues == {Undef, Num(0), Num(1899), Num(2024), Num(FirstYear + YearsAhead + 1)}
MsrpValues == {Undef, Null, Num(28000), Num(2000000), Infinity}
PriceValues == {Undef, Obj(EmptyObject)} \cup {Obj([starting_msrp |-> v]) : v \in MsrpValues}
PerformanceValues == {Undef, Obj([horsepower |-> Num(300)]), Obj([horsepower |-> Num(5000)])}
FuelValues == {Undef, Obj([combined |-> Num(30)]), Obj([combined |-> Num(150)])}

\* records that vary in their two names
NameRecords ==
    {CarRecord(m, md, y, p, Undef, Undef) :
        m \in StringValues, md \in StringValues,
        y \in {Undef, Num(2024)},
        p \in {Undef, Obj([starting_msrp |-> Num(28000)])}}

\* records that vary in their numeric fields
NumericRecords ==
    {CarRecord(Str(<<"a">>), Str(<<"a">>), y, p, pf, fe) :
        y \in YearValues, p \in PriceValues, pf \in PerformanceValues, fe \in FuelValues}

\* records that vary in the fields calculateValidationScore weighs: each one
\* absent, empty, or filled
ScoreRecords ==
    {[manufacturer |-> Str(<<"a">>), model |-> Str(<<"a">>), year |-> Num(2024),
      price |-> p, performance |-> pf, fuel_economy |-> Undef,
      specifications |-> sp, features |-> ft, dimensions |-> dm] :
        p \in {Undef, Obj(EmptyObject), Obj([starting_msrp |-> Num(28000)])},
        pf \in {Undef, Obj(EmptyObject), Obj([horsepower |-> Num(300)])},
        sp \in {Undef, Obj(EmptyObject), Obj([drivetrain |-> Str(<<"a">>)])},
        ft \in {Undef, Arr(<<>>), Arr(<<Str(<<"a">>)>>)},
        dm \in {Undef, Obj(EmptyObject), Obj([length |-> Num(190)])}}

\* the records a caller may pass to validateCarData
Records == NameRecords \cup NumericRecords \cup ScoreRecords

\* the records of a run that validates several records on one validator
CacheRecords ==
    {CarRecord(Str(m), Str(<<"a">>), y, p, Undef, Undef) :
        m \in {<<"a">>, <<" ", "a">>},
        y \in {Num(2024), Num(FirstYear + YearsAhead + 1)},
        p \in PriceValues \ {Undef, Obj([starting_msrp |-> Num(2000000)])}}

\* ------------------------------------------------------- source aggregator

\* obj with obj[key] = value
Put(obj, key, value) ==
    [k \in DOMAIN obj \cup {key} |-> IF k = key THEN value ELSE obj[k]]

\* the own properties an object spread {...value} copies
spread(value) == IF value.t = "object" THEN value.o ELSE EmptyObject

\* { ...a, ...b }
mergeObjects(a, b) ==
    [k \in DOMAIN a \cup DOMAIN b |-> IF k \in DOMAIN b THEN b[k] ELSE a[k]]

\* [...new Set(items)]: the first occurrence of each item, in order
RECURSIVE uniqueInOrder(_)
uniqueInOrder(list) ==
    IF list = <<>> THEN <<>>
    ELSE LET front == uniqueInOrder(SubSeq(list, 1, Len(list) - 1))
             last == list[Len(list)]
         IN IF \E i \in 1..Len(front) : front[i] = last THEN front
            ELSE Append(front, last)

\* the items an array spread [...value] copies
itemsOf(value) == IF value.t = "array" THEN value.a ELSE <<>>

\* mergeCarData() that lets the source's object replace the target's
mergeNestedReplace(target, source, field) ==
    IF Truthy(Get(source, field)) THEN Put(target, field, Get(source, field))
    ELSE target

\* if (source[field]) target[field] = { ...target[field], ...source[field] }
mergeNested(target, source, field) ==
    IF Truthy(Get(source, field))
    THEN Put(target, field,
             Obj(mergeObjects(spread(Get(target, field)), spread(Get(source, field)))))
    ELSE target

\* if (source.features) target.features = [...new Set([...target.features, ...source.features])]
mergeFeatures(target, source) ==
    IF Truthy(Get(source, "features"))
    THEN Put(target, "features",
             Arr(uniqueInOrder(itemsOf(Get(target, "features"))
                               \o itemsOf(Get(source, "features")))))
    ELSE target

\* the nested fields mergeCarData merges after the features, in its order
LaterNestedFields == <<"specifications", "dimensions", "fuel_economy", "safety_ratings">>

RECURSIVE mergeNestedFrom(_, _, _)
mergeNestedFrom(target, source, i) ==
    IF i > Len(LaterNestedFields) THEN target
    ELSE mergeNestedFrom(mergeNested(target, source, LaterNestedFields[i]), source, i + 1)

\* mergeCarData(target, source): the target after the call
mergeCarDataValue(target, source) ==
    mergeNestedFrom(
        mergeFeatures(mergeNested(mergeNested(target, source, "price"),
                                  source, "performance"),
                      source),
        source, 1)

\* the carData literal scrapeCarDetails starts from
newCarData(manufacturer, model, year, t) ==
    [vehicle_type |-> Str(<<"Sedan">>), manufacturer |-> manufacturer, model |-> model,
     year |-> Num(year), price |-> Obj(EmptyObject), performance |-> Obj(EmptyObject),
     features |-> Arr(<<>>), specifications |-> Obj(EmptyObject),
     dimensions |-> Obj(EmptyObject), fuel_economy |-> Obj(EmptyObject),
     scraped_at |-> Num(t)]

\* the sources list of scrapeCarDetails as shipped
Sources == <<"scrapeFromGoogle">>

\* the aggregator before any call
DetailsInit ==
    /\ carDetails = EmptyObject
    /\ sourceCount = Len(Sources)
    /\ sourceIdx = 0
    /\ detailPc = "idle"
    /\ tried = <<>>

\* estimatePrice(): the priceRanges table
PriceRanges ==
    ("Toyota" :> 28000) @@ ("Honda" :> 29000) @@ ("BMW" :> 55000)
    @@ ("Mercedes-Benz" :> 60000) @@ ("Audi" :> 52000) @@ ("Tesla" :> 55000)
    @@ ("Ford" :> 32000) @@ ("Chevrolet" :> 30000) @@ ("Hyundai" :> 27000)
    @@ ("Kia" :> 28000) @@ ("Nissan" :> 29000) @@ ("Volkswagen" :> 31000)
    @@ ("Mazda" :> 29000) @@ ("Subaru" :> 30000) @@ ("Lexus" :> 45000)
    @@ ("Acura" :> 38000) @@ ("Infiniti" :> 42000) @@ ("Genesis" :> 48000)
    @@ ("Volvo" :> 47000) @@ ("Porsche" :> 75000) @@ ("Jaguar" :> 55000)
    @@ ("Land Rover" :> 65000)

\* a name written as a string of one token
Name(token) == Str(<<token>>)

\* estimatePrice(manufacturer, model): priceRanges[manufacturer] || 35000
estimatePrice(manufacturer) ==
    IF manufacturer.t = "string" /\ Len(manufacturer.s) = 1
       /\ manufacturer.s[1] \in DOMAIN PriceRanges
    THEN PriceRanges[manufacturer.s[1]]
    ELSE DefaultEstimate

\* the number a numeric comparison reads from a truthy field
NumberOf(value) == IF value.t = "num" THEN value.v ELSE 0

\* calculateValueScore(carData)
calculateValueScore(c) ==
    LET msrp == GetIn(Get(c, "price"), "starting_msrp")
        hp == GetIn(Get(c, "performance"), "horsepower")
        features == itemsOf(Get(c, "features"))
        mpg == GetIn(Get(c, "fuel_economy"), "combined")
        byPrice == IF ~Truthy(msrp) THEN 0
                   ELSE IF NumberOf(msrp) < 25000 THEN 20
                   ELSE IF NumberOf(msrp) < 35000 THEN 10
                   ELSE IF NumberOf(msrp) > 60000 THEN -10 ELSE 0
        byPower == IF ~Truthy(hp) THEN 0
                   ELSE IF NumberOf(hp) > 300 THEN 15
                   ELSE IF NumberOf(hp) > 200 THEN 10 ELSE 0
        byFeatures == IF Len(features) > 0 THEN Min(Len(features), 10) ELSE 0
        byFuel == IF ~Truthy(mpg) THEN 0
                  ELSE IF NumberOf(mpg) > 35 THEN 15
                  ELSE IF NumberOf(mpg) > 25 THEN 5 ELSE 0
    IN Min(Max(50 + byPrice + byPower + byFeatures + byFuel, 0), 100)

\* scrapeCarDetails() that forgets the estimate
finishDetailsNoEstimate(c) == Put(c, "value_score", Num(calculateValueScore(c)))

\* scrapeCarDetails() after its loop: the estimate for a missing price, then
\* the value score
finishDetails(c) ==
    LET c1 == IF Truthy(GetIn(Get(c, "price"), "starting_msrp")) THEN c
              ELSE Put(c, "price",
                       Obj(Put(Put(spread(Get(c, "price")), "starting_msrp",
                                   Num(estimatePrice(Get(c, "manufacturer")))),
                               "is_estimated", Bool(TRUE))))
    IN Put(c1, "value_score", Num(calculateValueScore(c1)))

\* the break test with the horsepower forgotten
goodDataPriceOnly(c) == Truthy(GetIn(Get(c, "price"), "starting_msrp"))

\* carData has both a starting price and a horsepower
goodData(c) ==
    /\ Truthy(GetIn(Get(c, "price"), "starting_msrp"))
    /\ Truthy(GetIn(Get(c, "performance"), "horsepower"))

\* scrapeCarDetails({manufacturer, model, ...}) up to its first await
scrapeCarDetailsCall(manufacturer, model, n) ==
    /\ detailPc \in {"idle", "returned"}
    /\ carDetails' = newCarData(manufacturer, model, currentYear, now)
    /\ sourceCount' = n
    /\ sourceIdx' = 1
    /\ detailPc' = "source"
    /\ tried' = <<>>

\* the awaited source returns a fragment or throws; scrapeCarDetails runs on
\* to its next await or to its return
sourceReturns(outcome) ==
    /\ detailPc = "source"
    /\ LET merges == /\ outcome.kind = "fragment"
                      /\ DOMAIN outcome.fragment # {}
            c1 == IF merges THEN mergeCarDataValue(carDetails, outcome.fragment)
                  ELSE carDetails
            leaves == (merges /\ goodData(c1)) \/ sourceIdx = sourceCount
       IN /\ tried' = Append(tried, outcome)
          /\ IF leaves
             THEN /\ carDetails' = finishDetails(c1)
                  /\ detailPc' = "returned"
                  /\ UNCHANGED sourceIdx
             ELSE /\ carDetails' = c1
                  /\ sourceIdx' = sourceIdx + 1
                  /\ UNCHANGED detailPc
    /\ UNCHANGED sourceCount

\* mergeCarData(carData, source) called directly on the record being built
mergeCarData(source) ==
    /\ carDetails # EmptyObject
    /\ Len(tried) < MaxFragments
    /\ carDetails' = mergeCarDataValue(carDetails, source)
    /\ tried' = Append(tried, [kind |-> "fragment", fragment |-> source])
    /\ UNCHANGED <<sourceCount, sourceIdx, detailPc>>

\* what scrapeFromGoogle returns: {} when its handler never ran, else the five
\* extracted fields and, when a price was found on the page, the price; a
\* page that reads "0 hp" gives horsepower 0
PagePrices == {25000, 85000}

GoogleFragments ==
    {EmptyObject}
    \cup {[performance |-> Obj(pf), features |-> Arr(ft),
           specifications |-> Obj(EmptyObject), fuel_economy |-> Obj(fe),
           dimensions |-> Obj(EmptyObject)] :
             pf \in {EmptyObject, [horsepower |-> Num(300)]},
             ft \in {<<>>, <<Name("sunroof")>>},
             fe \in {EmptyObject, [combined |-> Num(30)]}}
    \cup {[price |-> Obj([starting_msrp |-> Num(p), max_price |-> Num(p + 5000)]),
           performance |-> Obj(pf), features |-> Arr(<<Name("sunroof")>>),
           specifications |-> Obj(EmptyObject), fuel_economy |-> Obj(EmptyObject),
           dimensions |-> Obj(EmptyObject)] :
             p \in PagePrices,
             pf \in {EmptyObject, [horsepower |-> Num(300)], [horsepower |-> Num(0)]}}

\* the outcomes of awaiting a source
SourceOutcomes ==
    {[kind |-> "throw", fragment |-> EmptyObject]}
    \cup {[kind |-> "fragment", fragment |-> f] : f \in GoogleFragments}

\* the objects a source may give for price
PriceObjects ==
    UNION {[keys -> {Num(28000), Num(30000)}] : keys \in SUBSET {"starting_msrp", "max_price"}}

FeatureLists == UNION {[1..n -> {Name("sunroof"), Name("navigation")}] : n \in 0..2}

\* the fragments passed to mergeCarData
MergeFragments ==
    {EmptyObject}
    \cup {[price |-> Obj(f)] : f \in PriceObjects}
    \cup {[features |-> Arr(ft)] : ft \in FeatureLists}
    \cup {[performance |-> Obj([horsepower |-> Num(250), torque |-> Num(400)])],
          [safety_ratings |-> Obj([overall |-> Num(5)])],
          [price |-> Obj([starting_msrp |-> Num(28000), max_price |-> Num(30000)]),
           performance |-> Obj([horsepower |-> Num(300)]),
           features |-> Arr(<<Name("sunroof")>>)],
          [price |-> Obj([starting_msrp |-> Num(30000)]),
           features |-> Arr(<<Name("navigation"), Name("sunroof")>>)]}

\* ------------------------------------------------------- run orchestrator

VehicleTypes == {"Sedan", "SUV", "Hatchback", "Coupe", "Sports car", "Crossover", "All"}
Countries == {"US", "UK", "CA", "AU", "DE", "JP", "IN", "FR", "IT", "ES"}
SecurityLevels == {"minimal", "standard", "strict", "stealth"}

\* a string value is one of the listed names: list.includes(value)
Includes(names, value) ==
    value.t = "string" /\ Len(value.s) = 1 /\ value.s[1] \in names

\* isNaN(parseInt(value)) || parseInt(value) < lo || parseInt(value) > hi
ParsedOutside(value, lo, hi) ==
    IF value.t = "num" THEN value.v < lo \/ value.v > hi ELSE TRUE

\* validateInput(given): the errors list
validateInputErrors(given) ==
    (IF ~Truthy(given.vehicleType) THEN <<"vehicleType is required">>
     ELSE IF ~Includes(VehicleTypes, given.vehicleType) THEN <<"Invalid vehicleType">>
     ELSE <<>>)
    \o (IF given.maxResults # Undef /\ ParsedOutside(given.maxResults, 1, MaxResultsLimit)
        THEN <<"maxResults must be between 1 and 1000">> ELSE <<>>)
    \o (IF Truthy(given.country) /\ ~Includes(Countries, given.country)
        THEN <<"Invalid country code">> ELSE <<>>)
    \o (IF Truthy(given.securityLevel) /\ ~Includes(SecurityLevels, given.securityLevel)
        THEN <<"Invalid securityLevel">> ELSE <<>>)
    \o (IF given.rateLimitDelay # Undef
           /\ ParsedOutside(given.rateLimitDelay, MinRateLimitDelay, MaxRateLimitDelay)
        THEN <<"rateLimitDelay must be between 500 and 10000">> ELSE <<>>)

\* validateInput() that accepts every input
validateInputValidAlways(given) == TRUE

\* validateInput(given).valid
validateInputValid(given) == validateInputErrors(given) = <<>>

\* the securityConfig main() derives from the input
securityConfigOf(given) ==
    [rateLimitDelay |-> IF Truthy(given.rateLimitDelay) THEN NumberOf(given.rateLimitDelay)
                        ELSE DefaultRateLimitDelay,
     encryptData |-> given.encryptSensitiveData # Bool(FALSE),
     anonymizeData |-> given.anonymizeData # Bool(FALSE)]

DefaultManufacturers ==
    <<"Toyota", "Honda", "BMW", "Mercedes-Benz", "Audi", "Tesla", "Ford", "Chevrolet",
      "Hyundai", "Kia", "Nissan", "Volkswagen", "Mazda", "Subaru", "Lexus", "Acura",
      "Infiniti", "Genesis", "Volvo", "Porsche", "Jaguar", "Land Rover">>

\* the manufacturers main() iterates: the list of the input, or the default list
manufacturersOf(given) ==
    IF given.manufacturers.t = "array" /\ Len(given.manufacturers.a) > 0
    THEN given.manufacturers.a
    ELSE [i \in 1..Len(DefaultManufacturers) |-> Name(DefaultManufacturers[i])]

\* Math.ceil(given.maxResults / manufacturers.length) as models.slice(0, n)
\* reads it: NaN, for an input without maxResults, slices to nothing
maxPerManufacturer(given, count) ==
    IF given.maxResults.t = "num" THEN (given.maxResults.v + count - 1) \div count
    ELSE 0

\* processedCount >= given.maxResults: false against undefined
capReached(given, processed) ==
    given.maxResults.t = "num" /\ processed >= given.maxResults.v

\* encryptData(data, key): the envelope, or the data itself when the cipher
\* rejects the key (the catch branch)
encryptData(data, accepted) ==
    IF accepted
    THEN Obj([encrypted |-> Name("ciphertext"), iv |-> Name("iv"),
              authTag |-> Name("tag"), algorithm |-> Name("aes-256-gcm")])
    ELSE data

\* value at a dotted path exists and is neither null nor undefined
HasPath(c, path) ==
    LET v1 == Get(c, path[1])
        v == IF Len(path) = 1 THEN v1 ELSE GetIn(v1, path[2])
        exists == /\ path[1] \in DOMAIN c
                  /\ Len(path) = 2 => (v1.t = "object" /\ path[2] \in DOMAIN v1.o)
    IN exists /\ v.t \notin {"null", "undefined"}

CompletenessFields ==
    <<(<<"manufacturer">>), (<<"model">>), <<"price", "starting_msrp">>,
      <<"performance", "horsepower">>, <<"specifications", "engine">>>>

\* calculateCompleteness(carData)
calculateCompleteness(c) ==
    Min(100, 20 * Cardinality({i \in 1..Len(CompletenessFields) :
                                  HasPath(c, CompletenessFields[i])}))

\* applySecurityTransformations(carData, securityConfig, sessionId)
applySecurityTransformations(car, securityConfig, sid, t, accepted) ==
    LET c1 == Put(Put(Put(car, "session_id", Name(sid)), "scraped_at", Num(t)),
                  "security_flags", Arr(<<>>))
        encrypts == securityConfig.encryptData /\ Truthy(Get(car, "price"))
        c2 == IF encrypts
              THEN Put(Put(c1, "price", encryptData(Get(car, "price"), accepted)),
                       "security_flags", Arr(<<Name("encrypted_price")>>))
              ELSE c1
        c3 == IF securityConfig.anonymizeData
              THEN Put([k \in DOMAIN c2 \ {"dealer_info", "contact_info"} |-> c2[k]],
                       "security_flags",
                       Arr(Append(c2["security_flags"].a, Name("anonymized"))))
              ELSE c2
        c4 == Put(c3, "data_hash", Name("sha256"))
    IN Put(c4, "data_quality", Num(calculateCompleteness(c4)))

Bands == {"budget", "midrange", "premium", "luxury"}

\* car.price?.starting_msrp || 0
priceOrZero(car) ==
    LET v == GetIn(Get(car, "price"), "starting_msrp")
    IN IF Truthy(v) THEN NumberOf(v) ELSE 0

\* groupCarsByPrice(): the group a price is pushed to
groupOf(price) ==
    IF price < BudgetBelow THEN "budget"
    ELSE IF price < MidrangeBelow THEN "midrange"
    ELSE IF price < PremiumBelow THEN "premium"
    ELSE "luxury"

\* groupCarsByPrice(cars), each group holding positions in cars
groupCarsByPrice(list) ==
    [band \in Bands |->
        SelectSeq([i \in 1..Len(list) |-> i],
                  LAMBDA i : groupOf(priceOrZero(list[i])) = band)]

\* getCompetitorAnalysis(): the group whose members are compared with a price
competitorsGroupOf(price) ==
    IF price < BudgetBelow THEN "budget"
    ELSE IF price < MidrangeBelow THEN "midrange"
    ELSE IF price < PremiumBelow THEN "premium"
    ELSE "luxury"

\* (value || 0) of a number field
numberOrZero(value) == IF Truthy(value) THEN NumberOf(value) ELSE 0

\* getAdvantages(competitor, car)
getAdvantages(competitor, car) ==
    (IF numberOrZero(GetIn(Get(competitor, "performance"), "horsepower"))
            > numberOrZero(GetIn(Get(car, "performance"), "horsepower"))
     THEN <<Name("More horsepower")>> ELSE <<>>)
    \o (IF Len(itemsOf(Get(competitor, "features"))) > Len(itemsOf(Get(car, "features")))
        THEN <<Name("More features")>> ELSE <<>>)
    \o (IF numberOrZero(GetIn(Get(competitor, "fuel_economy"), "combined"))
            > numberOrZero(GetIn(Get(car, "fuel_economy"), "combined"))
        THEN <<Name("Better fuel economy")>> ELSE <<>>)

Abs(n) == IF n < 0 THEN -n ELSE n

Digits == <<"0", "1", "2", "3", "4", "5", "6", "7", "8", "9">>

RECURSIVE decimal(_)
\* the decimal digits of a natural number
decimal(n) ==
    IF n < 10 THEN <<Digits[n + 1]>> ELSE Append(decimal(n \div 10), Digits[(n % 10) + 1])

\* n.toFixed(0) of an integer: its decimal rendering, a string
toFixed0(n) == Str(IF n < 0 THEN <<"-">> \o decimal(-n) ELSE decimal(n))

\* getCompetitorAnalysis() that forgets .slice(0, 3)
getCompetitorAnalysisAll(car, list, groups) ==
    LET carPrice == priceOrZero(car)
        found == SelectSeq(groups[competitorsGroupOf(carPrice)],
                     LAMBDA i : /\ Get(list[i], "manufacturer") # Get(car, "manufacturer")
                                /\ Abs(priceOrZero(list[i]) - carPrice) < MaxPriceDifference)
    IN [k \in 1..Len(found) |->
           Obj([manufacturer |-> Get(list[found[k]], "manufacturer"),
                model |-> Get(list[found[k]], "model"),
                price_difference |-> toFixed0(priceOrZero(list[found[k]]) - carPrice),
                key_advantages |-> Arr(getAdvantages(list[found[k]], car))])]

\* getCompetitorAnalysis(car, priceGroups), the groups giving positions in list
getCompetitorAnalysis(car, list, groups) ==
    LET carPrice == priceOrZero(car)
        found == SelectSeq(groups[competitorsGroupOf(carPrice)],
                     LAMBDA i : /\ Get(list[i], "manufacturer") # Get(car, "manufacturer")
                                /\ Abs(priceOrZero(list[i]) - carPrice) < MaxPriceDifference)
        top == SubSeq(found, 1, Min(MaxCompetitors, Len(found)))
    IN [k \in 1..Len(top) |->
           Obj([manufacturer |-> Get(list[top[k]], "manufacturer"),
                model |-> Get(list[top[k]], "model"),
                price_difference |-> toFixed0(priceOrZero(list[top[k]]) - carPrice),
                key_advantages |-> Arr(getAdvantages(list[top[k]], car))])]

\* addCompetitorAnalysis(cars): every car with its competitors
addCompetitorAnalysisValue(list) ==
    [i \in 1..Len(list) |->
        Put(list[i], "competitors",
            Arr(getCompetitorAnalysis(list[i], list, groupCarsByPrice(list))))]

\* a run input with the options main() reads
inputOf(vehicleType, maxResults, makers, includeCompetitors, encryptSensitiveData) ==
    [vehicleType |-> vehicleType, maxResults |-> maxResults, country |-> Undef,
     securityLevel |-> Undef, rateLimitDelay |-> Undef, manufacturers |-> makers,
     includeCompetitors |-> includeCompetitors,
     encryptSensitiveData |-> encryptSensitiveData, anonymizeData |-> Undef]

NoInput == inputOf(Undef, Undef, Undef, Undef, Undef)
NoGroups == [band \in Bands |-> <<>>]

NegInfinity == [t |-> "-inf"]

\* getAuditSummary(): the three counts generateMetadata reads
getAuditSummary(requests, blocked, incidents) ==
    [total_requests |-> requests, blocked_requests |-> blocked,
     security_incidents |-> Len(incidents)]

\* calculateSecurityScore() that deducts nothing for incidents
calculateSecurityScoreNoIncidents(audit) ==
    LET rate10 == audit.total_requests > 0
                    /\ audit.blocked_requests * 100 > 10 * audit.total_requests
        rate30 == audit.total_requests > 0
                    /\ audit.blocked_requests * 100 > 30 * audit.total_requests
    IN Max(0, 100 - (IF rate10 THEN 10 ELSE 0) - (IF rate30 THEN 20 ELSE 0))

\* calculateSecurityScore(audit); blockRate > 10 is written without the division
calculateSecurityScore(audit) ==
    LET rate10 == audit.total_requests > 0
                    /\ audit.blocked_requests * 100 > 10 * audit.total_requests
        rate30 == audit.total_requests > 0
                    /\ audit.blocked_requests * 100 > 30 * audit.total_requests
    IN Max(0, 100 - audit.security_incidents * 5
                  - (IF rate10 THEN 10 ELSE 0) - (IF rate30 THEN 20 ELSE 0))

RECURSIVE Sum(_)
\* reduce((a, b) => a + b) of a list of numbers
Sum(list) == IF list = <<>> THEN 0 ELSE Head(list) + Sum(Tail(list))

\* Math.round(a / b) of non-negative a and positive b
roundDiv(a, b) == (2 * a + b) \div (2 * b)

RECURSIVE minOf(_)
\* Math.min(...list): Infinity of an empty list
minOf(list) ==
    IF list = <<>> THEN Infinity
    ELSE LET rest == minOf(Tail(list))
         IN IF rest = Infinity \/ Head(list) <= rest.v THEN Num(Head(list)) ELSE rest

RECURSIVE maxOf(_)
\* Math.max(...list): -Infinity of an empty list
maxOf(list) ==
    IF list = <<>> THEN NegInfinity
    ELSE LET rest == maxOf(Tail(list))
         IN IF rest = NegInfinity \/ Head(list) >= rest.v THEN Num(Head(list)) ELSE rest

\* generateMetadata(cars, processingTime, successRate, securityMonitor)
generateMetadata(list, audit) ==
    LET qualityScores == [i \in 1..Len(list) |-> numberOrZero(Get(list[i], "data_quality"))]
        prices == SelectSeq([i \in 1..Len(list) |-> priceOrZero(list[i])],
                            LAMBDA price : price > 0)
        among(lo, hi) == Len(SelectSeq(qualityScores, LAMBDA q : q >= lo /\ q < hi))
    IN [total_records |-> Len(list),
        security_audit |-> [score |-> calculateSecurityScore(audit),
                            incidents |-> audit.security_incidents,
                            requests |-> audit.total_requests,
                            blocked |-> audit.blocked_requests],
        data_quality_summary |->
            [average_score |-> IF qualityScores = <<>> THEN 0
                               ELSE roundDiv(Sum(qualityScores), Len(qualityScores)),
             excellent |-> among(90, 101), good |-> among(70, 90),
             fair |-> among(50, 70), poor |-> among(0, 50)],
        price_statistics |->
            [average |-> IF prices = <<>> THEN 0 ELSE roundDiv(Sum(prices), Len(prices)),
             min |-> minOf(prices), max |-> maxOf(prices), count |-> Len(prices)]]

\* generateMetadata called on its own, for a monitor with the given counts
generateMetadataCall(list, requests, blocked, incidents) ==
    /\ allCars' = list
    /\ output' = <<[data |-> list,
                    metadata |-> generateMetadata(list,
                                     [total_requests |-> requests,
                                      blocked_requests |-> blocked,
                                      security_incidents |-> incidents])]>>
    /\ runPc' = "done"
    /\ UNCHANGED <<input, keyAccepted, mIdx, models, modelIdx, cars, processedCount,
                   progress, priceGroups, visits>>

\* a record as the pipeline collects it
carOf(manufacturer, model, price, hp, features, mpg) ==
    LET c == newCarData(Name(manufacturer), Name(model), FirstYear, 0)
        priced == IF price = 0 THEN c
                  ELSE Put(c, "price", Obj([starting_msrp |-> Num(price)]))
        powered == IF hp = 0 THEN priced
                   ELSE Put(priced, "performance", Obj([horsepower |-> Num(hp)]))
        rated == IF mpg = 0 THEN powered
                 ELSE Put(powered, "fuel_economy", Obj([combined |-> Num(mpg)]))
    IN Put(rated, "features", Arr(features))

\* the records competitor analysis is given
AnalysedCars ==
    {carOf("Toyota", "Camry", 25000, 200, <<>>, 30),
     carOf("BMW", "M3", 25000, 300, <<Name("sunroof")>>, 30),
     carOf("Honda", "Civic", 29999, 200, <<>>, 35),
     carOf("Honda", "Accord", 30000, 0, <<Name("sunroof"), Name("navigation")>>, 0),
     carOf("BMW", "X5", 44999, 300, <<>>, 25),
     carOf("Toyota", "Supra", 50000, 300, <<>>, 0),
     carOf("BMW", "M5", 80000, 300, <<>>, 0),
     carOf("Honda", "Fit", 0, 100, <<>>, 40)}

\* addCompetitorAnalysis(cars), called on its own
addCompetitorAnalysis(list) ==
    /\ priceGroups' = groupCarsByPrice(list)
    /\ allCars' = addCompetitorAnalysisValue(list)
    /\ runPc' = "done"
    /\ UNCHANGED <<input, keyAccepted, mIdx, models, modelIdx, cars, processedCount,
                   progress, output, visits>>

\* main() not yet started
RunInit ==
    /\ runPc = "idle"
    /\ input = NoInput
    /\ keyAccepted = TRUE
    /\ mIdx = 0
    /\ models = <<>>
    /\ modelIdx = 0
    /\ cars = <<>>
    /\ allCars = <<>>
    /\ processedCount = 0
    /\ progress = <<>>
    /\ output = <<>>
    /\ priceGroups = NoGroups
    /\ visits = <<>>

\* a catch of a manufacturer's error that ends the run
afterCatchAbort == "crashed"

\* the position after main()'s catch of a manufacturer's error: the delay,
\* then the head of the loop
afterCatch == "loop"

ModelNames == <<"Camry", "Corolla", "Prius">>

\* the k models getManufacturerModels() found on the page: distinct matches
\* of the manufacturer's name followed by a model name
modelsFound(manufacturer, k) ==
    [i \in 1..k |-> Str(manufacturer.s \o <<" ", ModelNames[i]>>)]

\* models.slice(0, n)
sliceTo(list, n) == SubSeq(list, 1, Min(n, Len(list)))

\* the validate-and-filter pass over secureCars: validateCarData misses
\* sanitize the two names of the car in place and fill the cache
RECURSIVE validateAll(_, _, _, _)
validateAll(cache, list, i, year) ==
    IF i > Len(list) THEN [cache |-> cache, valid |-> <<>>]
    ELSE LET key == cacheKey(list[i])
             hit == key \in DOMAIN cache
             result == IF hit THEN cache[key] ELSE validateCarDataResult(list[i], year)
             car == IF hit THEN list[i] ELSE sanitizeInPlace(list[i])
             cache1 == IF hit THEN cache
                       ELSE [k \in DOMAIN cache \cup {key} |->
                                IF k = key THEN result ELSE cache[k]]
             rest == validateAll(cache1, list, i + 1, year)
         IN [cache |-> rest.cache,
             valid |-> (IF result.valid THEN <<car>> ELSE <<>>) \o rest.valid]

\* main() from the return of scrapeManufacturer to await Actor.setValue:
\* transform, validate and filter, accumulate
collect(found) ==
    LET secureCars == [i \in 1..Len(found) |->
                          applySecurityTransformations(found[i], securityConfigOf(input),
                                                       sessionId, now, keyAccepted)]
        pass == validateAll(validationCache, secureCars, 1, currentYear)
    IN /\ validationCache' = pass.cache
       /\ allCars' = allCars \o pass.valid
       /\ processedCount' = processedCount + Len(pass.valid)
       /\ cars' = found
       /\ runPc' = "checkpoint"
       /\ UNCHANGED <<currentYear, lastInput, lastResult, lastKey, prevResult, revalidated>>

\* main() once Actor.getInput() has resolved, up to the manufacturer loop
mainStart(given, accepted) ==
    /\ runPc = "idle"
    /\ input' = given
    /\ IF ~validateInputValid(given)
       THEN /\ runPc' = "failed"
            /\ UNCHANGED <<auditVars, keyAccepted, mIdx>>
       ELSE /\ sessionId' = "s1"
            /\ logEventCall("session_created", "s1")
            /\ keyAccepted' = accepted
            /\ mIdx' = 1
            /\ runPc' = "loop"
            /\ UNCHANGED <<requestCount, blockedCount, retryCount>>
    /\ UNCHANGED <<validatorVars, detailVars, models, modelIdx, cars, allCars,
                   processedCount, progress, output, priceGroups, visits>>

\* the head of the manufacturer loop: leave it when the list is exhausted or
\* the cap is reached, running competitor analysis up to await Actor.pushData;
\* else call scrapeManufacturer up to the await of the model list
loopHead ==
    /\ runPc = "loop"
    /\ IF mIdx > Len(manufacturersOf(input)) \/ capReached(input, processedCount)
       THEN /\ IF Truthy(input.includeCompetitors) /\ Len(allCars) > 1
               THEN /\ allCars' = addCompetitorAnalysisValue(allCars)
                    /\ priceGroups' = groupCarsByPrice(allCars)
               ELSE UNCHANGED <<allCars, priceGroups>>
            /\ runPc' = "push"
            /\ UNCHANGED cars
       ELSE /\ runPc' = "models"
            /\ cars' = <<>>
            /\ UNCHANGED <<allCars, priceGroups>>
    /\ UNCHANGED <<auditVars, validatorVars, detailVars, input, keyAccepted, mIdx,
                   models, modelIdx, processedCount, progress, output, visits>>

\* the await in getManufacturerModels ends.  found.kind is "throw" (the
\* crawler could not be built: scrapeManufacturer rethrows and main() logs
\* manufacturer_error), "failed" (crawler.run rejected: models_crawl_failed
\* is logged, no model was found) or "models" (found.count models)
modelsReturn(found) ==
    /\ runPc = "models"
    /\ LET manufacturer == manufacturersOf(input)[mIdx]
           list == IF found.kind = "models"
                   THEN sliceTo(sliceTo(modelsFound(manufacturer, found.count), 15),
                                maxPerManufacturer(input, Len(manufacturersOf(input))))
                   ELSE <<>>
       IN IF found.kind = "throw"
          THEN /\ logEventCall("manufacturer_error", sessionId)
               /\ visits' = Append(visits, [manufacturer |-> manufacturer,
                                            outcome |-> "scrape_error",
                                            found |-> <<>>,
                                            total |-> Len(allCars)])
               /\ mIdx' = mIdx + 1
               /\ runPc' = IF lastLog'.result = "RangeError" THEN "crashed" ELSE afterCatch
               /\ UNCHANGED <<sessionId, requestCount, blockedCount, retryCount,
                              validatorVars, detailVars, models, modelIdx, cars, allCars,
                              processedCount>>
          ELSE /\ IF found.kind = "failed"
                  THEN /\ logEventCall("models_crawl_failed", sessionId)
                       /\ UNCHANGED <<sessionId, requestCount, blockedCount, retryCount>>
                  ELSE UNCHANGED auditVars
               /\ models' = list
               /\ IF list = <<>>
                  THEN /\ collect(<<>>)
                       /\ UNCHANGED <<detailVars, modelIdx>>
                  ELSE /\ modelIdx' = 1
                       /\ scrapeCarDetailsCall(manufacturer, list[1], Len(Sources))
                       /\ runPc' = "details"
                       /\ UNCHANGED <<validatorVars, cars, allCars, processedCount>>
               /\ UNCHANGED <<mIdx, visits>>
    /\ UNCHANGED <<input, keyAccepted, progress, output, priceGroups>>

\* the awaited source of scrapeCarDetails ends, within a run.  outcome.kind
\* is "throw", "failed" (crawler.run rejected: google_scrape_failed is
\* logged and {} returned) or "fragment"
sourceReturnsInRun(outcome) ==
    /\ runPc = "details"
    /\ sourceReturns(outcome)
    /\ IF outcome.kind = "failed"
       THEN /\ logEventCall("google_scrape_failed", sessionId)
            /\ UNCHANGED <<sessionId, requestCount, blockedCount, retryCount>>
       ELSE UNCHANGED auditVars
    /\ UNCHANGED <<validatorVars, runVars>>

\* scrapeCarDetails has returned: scrapeManufacturer pushes the record and,
\* the delay over, goes to its next model or returns its cars to main()
detailsReturn ==
    /\ runPc = "details"
    /\ detailPc = "returned"
    /\ IF modelIdx < Len(models)
       THEN /\ cars' = Append(cars, carDetails)
            /\ modelIdx' = modelIdx + 1
            /\ scrapeCarDetailsCall(manufacturersOf(input)[mIdx], models[modelIdx + 1],
                                    Len(Sources))
            /\ UNCHANGED <<validatorVars, runPc, allCars, processedCount>>
       ELSE /\ collect(Append(cars, carDetails))
            /\ detailPc' = "idle"
            /\ UNCHANGED <<carDetails, sourceCount, sourceIdx, tried, modelIdx>>
    /\ UNCHANGED <<auditVars, input, keyAccepted, mIdx, models, progress, output,
                   priceGroups, visits>>

\* await Actor.setValue('progress', ...) ends: the checkpoint is written,
\* or the rejection lands in main()'s catch, which logs manufacturer_error
checkpointDone(written) ==
    /\ runPc = "checkpoint"
    /\ LET manufacturer == manufacturersOf(input)[mIdx]
       IN IF written
          THEN /\ progress' = Append(progress, [manufacturer |-> manufacturer,
                                                processed |-> processedCount,
                                                total |-> Len(allCars)])
               /\ visits' = Append(visits, [manufacturer |-> manufacturer,
                                            outcome |-> "collected",
                                            found |-> cars,
                                            total |-> Len(allCars)])
               /\ runPc' = "loop"
               /\ UNCHANGED auditVars
          ELSE /\ logEventCall("manufacturer_error", sessionId)
               /\ visits' = Append(visits, [manufacturer |-> manufacturer,
                                            outcome |-> "checkpoint_error",
                                            found |-> cars,
                                            total |-> Len(allCars)])
               /\ runPc' = IF lastLog'.result = "RangeError" THEN "crashed" ELSE afterCatch
               /\ UNCHANGED <<progress, sessionId, requestCount, blockedCount, retryCount>>
    /\ mIdx' = mIdx + 1
    /\ UNCHANGED <<validatorVars, detailVars, input, keyAccepted, models, modelIdx, cars,
                   allCars, processedCount, output, priceGroups>>

\* await Actor.pushData(output) ends: the output is stored and finalAudit()
\* logs final_audit, or the rejection fails the run
pushDone(stored) ==
    /\ runPc = "push"
    /\ IF stored
       THEN /\ output' = Append(output,
                               [data |-> allCars,
                                metadata |-> generateMetadata(allCars,
                                                 getAuditSummary(requestCount, blockedCount,
                                                                 securityIncidents))])
            /\ logEventCall("final_audit", sessionId)
            /\ runPc' = "done"
            /\ UNCHANGED <<sessionId, requestCount, blockedCount, retryCount>>
       ELSE /\ runPc' = "failed"
            /\ UNCHANGED <<output, auditVars>>
    /\ UNCHANGED <<validatorVars, detailVars, input, keyAccepted, mIdx, models, modelIdx,
                   cars, allCars, processedCount, progress, priceGroups, visits>>


\* the wall clock advances
Tick ==
    /\ now + TickMs <= MaxTicks * TickMs
    /\ now' = now + TickMs
    /\ UNCHANGED <<config, requestTimestamps, activeRequests, consecutiveFailures,
                   backoffMultiplier, pc, call, lastCheck, contractKept, lastDelay>>
    /\ UNCHANGED <<auditVars, validatorVars, detailVars, runVars>>

Init ==
    /\ now = 0
    /\ RateLimiterInit
    /\ pc = [c \in Callers |-> "idle"]
    /\ call = [c \in Callers |-> NoCall]
    /\ lastCheck = "none"
    /\ contractKept = TRUE
    /\ lastDelay = 0
    /\ SecurityMonitorInit
    /\ DataValidatorInit
    /\ DetailsInit
    /\ RunInit

\* One logical thread of control (the design's scheduling): a call of
\* execute() runs to its end before anything else touches the limiter.

\* admission: the sliding window and the active-request counter
AdmissionStep ==
    \/ AllIdle /\ canMakeRequest
    \/ AllIdle /\ addRequestTimestamp
    \/ AllIdle /\ completeRequest
    \/ AllIdle /\ reset
    \/ \E c \in Callers : AllIdle /\ executeCall(c)
    \/ \E c \in Callers : executePollBlocked(c)
    \/ \E c \in Callers : executeDelayDone(c)
    \/ \E c \in Callers : executeAdmit(c)
    \/ \E c \in Callers : executeResolve(c)
    \/ \E c \in Callers : executeReject(c)
    \/ \E c \in Callers : executeDone(c)

AdmissionNext ==
    \/ AdmissionStep /\ UNCHANGED <<auditVars, validatorVars, detailVars, runVars>>
    \/ Tick

SpecAdmission == Init /\ [][AdmissionNext]_vars

\* backoff: the failure streak, the delay and the adaptive configuration
BackoffStep ==
    \/ calculateDelay
    \/ recordSuccess
    \/ recordFailure
    \/ getStats
    \/ reset
    \/ adaptiveLimit

BackoffNext == BackoffStep /\ UNCHANGED <<auditVars, validatorVars, detailVars, runVars>>

SpecBackoff == Init /\ [][BackoffNext]_vars

\* the ledger: every operation of the SecurityMonitor
AuditStep ==
    \/ logEvent
    \/ setSessionId
    \/ trackRequest
    \/ trackBlockedRequest
    \/ trackRetry
    \/ finalAudit
    \/ trackRequestBurst

AuditNext ==
    \/ AuditStep /\ UNCHANGED <<now, limiterVars, validatorVars, detailVars, runVars>>
    \/ Tick

\* the monitor next to the limiter that main() builds: new RateLimiter()
AuditInit == Init /\ config = constructorConfig([f \in {} |-> 0])

SpecAudit == AuditInit /\ [][AuditNext]_vars

\* one record validated on a new validator, then the data of its result
ValidateStep ==
    \/ lastResult = NoResult /\ \E carData \in Records : validateCarData(carData)
    \/ validateResultData

ValidateNext == ValidateStep /\ UNCHANGED <<now, limiterVars, auditVars, detailVars, runVars>>

SpecValidate == AuditInit /\ [][ValidateNext]_vars

\* a validator that serves many records over time
CacheStep ==
    \/ \E carData \in CacheRecords : validateCarData(carData)
    \/ validateResultData
    \/ clearCache
    \/ NewYear

CacheNext == CacheStep /\ UNCHANGED <<now, limiterVars, auditVars, detailVars, runVars>>

SpecCache == AuditInit /\ [][CacheNext]_vars

\* mergeCarData applied to one record, fragment after fragment
MergeStep ==
    \/ detailPc = "idle" /\ scrapeCarDetailsCall(Name("Toyota"), Name("Camry"), Len(Sources))
    \/ \E source \in MergeFragments : mergeCarData(source)

MergeNext == MergeStep /\ UNCHANGED <<now, limiterVars, auditVars, validatorVars, runVars>>

SpecMerge == AuditInit /\ [][MergeNext]_vars

\* scrapeCarDetails called for a model, over a list of one or more sources
DetailsStep ==
    \/ \E manufacturer \in {Name("Toyota"), Name("BMW"), Name("Acme")},
          n \in 1..MaxSources :
            scrapeCarDetailsCall(manufacturer, Name("Camry"), n)
    \/ \E outcome \in SourceOutcomes : sourceReturns(outcome)

DetailsNext == DetailsStep /\ UNCHANGED <<now, limiterVars, auditVars, validatorVars, runVars>>

SpecDetails == AuditInit /\ [][DetailsNext]_vars

CompetitorsStep ==
    /\ runPc = "idle"
    /\ \E list \in UNION {[1..n -> AnalysedCars] : n \in 0..MaxCars} :
          addCompetitorAnalysis(list)

CompetitorsNext ==
    CompetitorsStep /\ UNCHANGED <<now, limiterVars, auditVars, validatorVars, detailVars>>

SpecCompetitors == AuditInit /\ [][CompetitorsNext]_vars

\* the run inputs validateInput rejects, one per rule
InvalidInputs ==
    {inputOf(Undef, Num(3), Undef, Undef, Undef),
     inputOf(Name("Boat"), Num(3), Undef, Undef, Undef),
     inputOf(Name("Sedan"), Num(0), Undef, Undef, Undef),
     inputOf(Name("Sedan"), Num(MaxResultsLimit + 1), Undef, Undef, Undef),
     [inputOf(Name("Sedan"), Num(3), Undef, Undef, Undef) EXCEPT !.country = Name("XX")],
     [inputOf(Name("Sedan"), Num(3), Undef, Undef, Undef)
         EXCEPT !.securityLevel = Name("paranoid")],
     [inputOf(Name("Sedan"), Num(3), Undef, Undef, Undef)
         EXCEPT !.rateLimitDelay = Num(MinRateLimitDelay - 1)]}

\* the manufacturer lists of the runs
ManufacturerLists ==
    {<<Name("Toyota")>>, <<Name("Toyota"), Name("BMW")>>, <<Str(<<" ">>), Name("BMW")>>,
     <<Str(<<"d", ":", "a">>)>>}

\* the run inputs validateInput accepts
ValidInputs ==
    {inputOf(Name("Sedan"), maxResults, Arr(makers), includeCompetitors, encrypt) :
        maxResults \in {Undef, Num(1), Num(3)},
        makers \in ManufacturerLists,
        includeCompetitors \in {Undef, Bool(TRUE)},
        encrypt \in {Undef, Bool(FALSE)}}

\* what the await of the model list gives
ModelOutcomes ==
    {[kind |-> "throw", count |-> 0], [kind |-> "failed", count |-> 0]}
    \cup {[kind |-> "models", count |-> k] : k \in 0..MaxModels}

\* what the await of a source gives within a run
RunOutcomes ==
    {[kind |-> "throw", fragment |-> EmptyObject],
     [kind |-> "failed", fragment |-> EmptyObject]}
    \cup {[kind |-> "fragment",
           fragment |-> [price |-> Obj([starting_msrp |-> Num(p), max_price |-> Num(p)]),
                         performance |-> Obj([horsepower |-> Num(300)]),
                         features |-> Arr(<<>>), specifications |-> Obj(EmptyObject),
                         fuel_economy |-> Obj(EmptyObject),
                         dimensions |-> Obj(EmptyObject)]] : p \in PagePrices}

RunStep ==
    \/ /\ runPc = "idle"
       /\ \E given \in InvalidInputs \cup ValidInputs, accepted \in BOOLEAN :
             /\ accepted \/ securityConfigOf(given).encryptData
             /\ mainStart(given, accepted)
    \/ loopHead
    \/ \E found \in ModelOutcomes : modelsReturn(found)
    \/ \E outcome \in RunOutcomes : sourceReturnsInRun(outcome)
    \/ detailsReturn
    \/ \E written \in BOOLEAN : checkpointDone(written)
    \/ \E stored \in BOOLEAN : pushDone(stored)

RunNext == RunStep /\ UNCHANGED <<now, limiterVars>>

SpecRun == AuditInit /\ [][RunNext]_vars

\* the report built for a monitor with any counts, and for any short list of
\* accepted records
ReportStep ==
    /\ runPc = "idle"
    /\ \/ \E requests \in 0..MaxReportRequests, blocked \in 0..MaxReportRequests,
             incidents \in 0..MaxReportIncidents :
             generateMetadataCall(<<>>, requests, blocked, incidents)
       \/ \E list \in UNION {[1..n -> AnalysedCars] : n \in 1..2} :
             generateMetadataCall(list, 0, 0, 0)

ReportNext ==
    ReportStep /\ UNCHANGED <<now, limiterVars, auditVars, validatorVars, detailVars>>

SpecReport == AuditInit /\ [][ReportNext]_vars

\* several execute() calls in flight at once, interleaving at their awaits,
\* while captcha signals adapt the configuration and the clock advances
ConcurrentInit ==
    /\ Init
    /\ config \in {constructorConfig(SingleSlotArg), constructorConfig(OddCeilingArg)}

ConcurrentStep ==
    \/ \E c \in Callers : executeCall(c)
    \/ \E c \in Callers : executePollBlocked(c)
    \/ \E c \in Callers : executeDelayDone(c)
    \/ \E c \in Callers : executeAdmit(c)
    \/ \E c \in Callers : executeResolve(c)
    \/ \E c \in Callers : consecutiveFailures < MaxStreak /\ executeReject(c)
    \/ \E c \in Callers : executeDone(c)
    \/ adaptiveLimitCall(TRUE, FALSE, FALSE)

ConcurrentNext ==
    \/ ConcurrentStep /\ UNCHANGED <<auditVars, validatorVars, detailVars, runVars>>
    \/ Tick

SpecConcurrent == ConcurrentInit /\ [][ConcurrentNext]_vars

\* Date.now() keeps advancing: past the last tick the model keeps now and
\* moves the recorded timestamps back instead, which the window test
\* timestamp > now - 60000 cannot tell apart; 0 stands for any expired time.
\* A poll timer (half a second, Math.max(500, ...) in delay) is due long
\* before a tick has passed, so no tick passes over a poll that would succeed.
Elapse ==
    /\ \A c \in Callers :
           pc[c] = "delay"
               => ~canMakeRequestValue(activeRequests, requestTimestamps, config, now)
    /\ IF now + TickMs <= MaxTicks * TickMs
       THEN /\ now' = now + TickMs
            /\ UNCHANGED requestTimestamps
       ELSE /\ now' = now
            /\ requestTimestamps' = [i \in 1..Len(requestTimestamps) |->
                                        Max(0, requestTimestamps[i] - TickMs)]
    /\ UNCHANGED <<config, activeRequests, consecutiveFailures,
                   backoffMultiplier, pc, call, lastCheck, contractKept, lastDelay>>
    /\ UNCHANGED <<auditVars, validatorVars, detailVars, runVars>>

\* the loop test of execute() and what the same turn of the event loop does
\* after it: addRequestTimestamp() and the start of the task, or delay(100)
pollTurn(c, record) ==
    /\ IF canMakeRequestValue(activeRequests, requestTimestamps, config, now)
       THEN /\ Len(requestTimestamps) < MaxAdmissions
            /\ requestTimestamps' =
                   Append(canMakeRequestTimestamps(activeRequests, requestTimestamps,
                                                   config, now), now)
            /\ activeRequests' = activeRequests + 1
            /\ pc' = [pc EXCEPT ![c] = "task"]
            /\ call' = [call EXCEPT ![c] = [record EXCEPT !.admits = @ + 1,
                                                          !.checked = TRUE]]
            /\ lastCheck' = "none"
       ELSE /\ requestTimestamps' =
                   canMakeRequestTimestamps(activeRequests, requestTimestamps, config, now)
            /\ pc' = [pc EXCEPT ![c] = "delay"]
            /\ call' = [call EXCEPT ![c] = record]
            /\ UNCHANGED <<activeRequests, lastCheck>>
    /\ UNCHANGED <<now, config, consecutiveFailures, backoffMultiplier,
                   contractKept, lastDelay>>
    /\ UNCHANGED <<auditVars, validatorVars, detailVars, runVars>>

\* execute(requestFn) is called: it runs to its first await in the caller's turn
executeEnter(c) ==
    /\ pc[c] = "idle"
    /\ pollTurn(c, [NoCall EXCEPT !.preActive = activeRequests,
                                  !.preFailures = consecutiveFailures])

\* the timer of delay(100) fires and the loop test runs again in that turn
executeWake(c) ==
    /\ pc[c] = "delay"
    /\ pollTurn(c, call[c])

\* the awaited task settles and execute() releases the slot
executeSettle(c) ==
    /\ executeResolve(c) \/ executeReject(c)
    /\ UNCHANGED <<auditVars, validatorVars, detailVars, runVars>>

\* the caller's continuation takes the result
executeReturn(c) ==
    executeDone(c) /\ UNCHANGED <<auditVars, validatorVars, detailVars, runVars>>

\* two callers on a limiter with a single slot, under a clock that never stops
FairInit ==
    /\ Init
    /\ config = constructorConfig(SingleSlotArg)

FairNext ==
    \/ \E c \in Callers : executeEnter(c)
    \/ \E c \in Callers : executeWake(c)
    \/ \E c \in Callers : executeSettle(c)
    \/ \E c \in Callers : executeReturn(c)
    \/ Elapse

\* the event loop runs every due timer and every ready continuation, every
\* admitted task settles, and the clock advances; nothing obliges a caller to
\* call execute() again
Fairness ==
    /\ \A c \in Callers : WF_vars(executeWake(c))
    /\ \A c \in Callers : WF_vars(executeSettle(c))
    /\ \A c \in Callers : WF_vars(executeReturn(c))
    /\ WF_vars(Elapse)

SpecFair == FairInit /\ [][FairNext]_vars /\ Fairness

\* ------------------------------------------------------------------ claims

\* a canMakeRequest() check has just been made (directly, or by a polling
\* execute() that is now waiting)
JustChecked == lastCheck # "none" \/ \E c \in Callers : pc[c] = "delay"

\* C1 as stated: for any sequence of addRequestTimestamp and completeRequest
\* calls, activeRequests is never negative and, when canMakeRequest is checked,
\* it does not exceed config.concurrentRequests.
C1_AnySequenceWithinCeiling ==
    /\ activeRequests >= 0
    /\ JustChecked => activeRequests <= config.concurrentRequests

\* C1 amended: activeRequests is never negative for any sequence of calls, and
\* it never exceeds config.concurrentRequests as long as every
\* addRequestTimestamp directly followed a canMakeRequest that returned true.
C1_WithinCeilingUnderContract ==
    /\ activeRequests >= 0
    /\ contractKept => activeRequests <= config.concurrentRequests

\* the ceiling is reached under the contract and the next check refuses
C1_Witness ==
    /\ contractKept
    /\ activeRequests = config.concurrentRequests
    /\ lastCheck = "false"

\* C2: an execute() call admits once, after a canMakeRequest that returned
\* true, and releases exactly once before it returns or throws, so that
\* activeRequests is back at its value before the call; a failed task adds
\* exactly 1 to consecutiveFailures and its own error is rethrown; a successful
\* one leaves consecutiveFailures = 0 and backoffMultiplier = 1.
C2_ExecuteBookkeeping ==
    \A c \in Callers :
        /\ pc[c] \in {"task", "returned", "threw"} =>
               call[c].admits = 1 /\ call[c].checked
        /\ pc[c] = "task" => call[c].releases = 0
        /\ pc[c] \in {"returned", "threw"} =>
               /\ call[c].releases = 1
               /\ activeRequests = call[c].preActive
        /\ pc[c] = "threw" =>
               /\ consecutiveFailures = call[c].preFailures + 1
               /\ call[c].thrown = call[c].error
               /\ call[c].error \in TaskErrors
        /\ pc[c] = "returned" =>
               /\ consecutiveFailures = 0
               /\ backoffMultiplier = 1 * BackoffScale

\* a call that started with requests active and failures recorded has thrown
C2_Witness ==
    \E c \in Callers :
        /\ pc[c] = "threw"
        /\ call[c].preActive = 1
        /\ call[c].preFailures = 2

\* C3 as stated: every logEvent() call returns an event id to its caller, also
\* when the request rate or the incident count is over its ceiling.
C3_LogEventReturnsId == lastLog.result # "RangeError"

\* C4 as stated: a logEvent() call whose threshold check finds more than
\* MaxRequestsPerMinute request_made events in the trailing minute adds exactly
\* one rate_limit_exceeded event.
C4_OneRateEventPerCheck == lastLog.rateExceeded => lastLog.rateEvents = 1

\* the severity table of the ledger
C5_SeverityTable ==
    [session_created |-> 1, request_made |-> 1, retry_attempt |-> 2,
     request_blocked |-> 3, captcha_detected |-> 3, ip_blocked |-> 4,
     rate_limit_exceeded |-> 3, security_violation |-> 5]

IsPrefix(a, b) == Len(a) <= Len(b) /\ SubSeq(b, 1, Len(a)) = a

NonEmptyString(value) == value.t = "string" /\ value.s # <<>>

\* C8 as stated: validating the data of a result again gives the errors, the
\* warnings and the score of that result.
C8_Idempotent ==
    revalidated =>
        /\ lastResult.errors = prevResult.errors
        /\ lastResult.warnings = prevResult.warnings
        /\ lastResult.score = prevResult.score

\* C9 as stated: the data of a result that is valid has a non-empty
\* manufacturer and a non-empty model.
C9_AcceptedHasNames ==
    lastResult.valid =>
        /\ NonEmptyString(Get(lastResult.data, "manufacturer"))
        /\ NonEmptyString(Get(lastResult.data, "model"))

\* C10 as stated: whatever was validated before, the result returned for a
\* record is the result a validator without a cache computes for its content.
C10_CacheTransparent ==
    lastResult # NoResult =>
        lastResult = validateCarDataResult(lastInput, currentYear)

\* C6: adaptiveLimit is a one-way ratchet: from one call to the next
\* config.baseDelay never decreases and config.requestsPerMinute never
\* increases.
C6_OneWayRatchet ==
    [][/\ config'.baseDelay >= config.baseDelay
       /\ config'.requestsPerMinute <= config.requestsPerMinute]_vars

\* C7: with the configuration fixed, one more consecutive failure never lowers
\* the value of calculateDelay(), and that value never exceeds config.maxDelay.
C7_DelayMonotoneCapped ==
    /\ [](/\ calculateDelayValue(config, consecutiveFailures) <= config.maxDelay
          /\ lastDelay <= config.maxDelay)
    /\ [][(consecutiveFailures' = consecutiveFailures + 1 /\ config' = config) =>
             calculateDelayValue(config', consecutiveFailures') >=
                 calculateDelayValue(config, consecutiveFailures)]_vars

\* the streak has passed the exponent limit of 5 and the delay sits at the cap
C7_Witness ==
    /\ consecutiveFailures = 6
    /\ lastDelay = config.maxDelay
    /\ config.baseDelay = DefaultBaseDelay

\* a number outside lo..hi
NumberOutside(value, lo, hi) ==
    \/ value.t = "inf"
    \/ value.t = "num" /\ (value.v < lo \/ value.v > hi)

HasMessage(list, text) == \E i \in 1..Len(list) : list[i].msg = text

\* the latest record with its horsepower and combined mpg put in range
C11_SoftFieldsInRange ==
    [lastInput EXCEPT !["performance"] = Obj([horsepower |-> Num(300)]),
                      !["fuel_economy"] = Obj([combined |-> Num(30)])]

\* C11 as stated: a year outside 1990..currentYear+2 or a starting price
\* outside 0..1,000,000 adds an error and makes the record invalid; a
\* horsepower outside 0..2000 or a combined mpg outside 0..100 adds a warning,
\* no error, and leaves the validity what it is with those two in range.
C11_ErrorsVersusWarnings ==
    (lastResult # NoResult /\ ~revalidated) =>
        /\ NumberOutside(Get(lastInput, "year"), MinYear, currentYear + YearsAhead)
               => /\ HasMessage(lastResult.errors, "Year must be between 1990 and")
                  /\ ~lastResult.valid
        /\ NumberOutside(GetIn(Get(lastInput, "price"), "starting_msrp"), 0, MaxPrice)
               => /\ HasMessage(lastResult.errors, "Price must be between 0 and 1,000,000")
                  /\ ~lastResult.valid
        /\ NumberOutside(GetIn(Get(lastInput, "performance"), "horsepower"),
                         0, MaxHorsepower)
               => /\ HasMessage(lastResult.warnings, "Horsepower value seems unrealistic")
                  /\ ~HasMessage(lastResult.errors, "Horsepower value seems unrealistic")
        /\ NumberOutside(GetIn(Get(lastInput, "fuel_economy"), "combined"), 0, MaxMpg)
               => /\ HasMessage(lastResult.warnings, "Fuel economy value seems unrealistic")
                  /\ ~HasMessage(lastResult.errors, "Fuel economy value seems unrealistic")
        /\ lastResult.valid =
               validateCarDataResult(C11_SoftFieldsInRange, currentYear).valid

\* a number within lo..hi
NumberWithin(value, lo, hi) == value.t = "num" /\ value.v >= lo /\ value.v <= hi

\* a string with a character other than blanks
PresentString(value) == value.t = "string" /\ Trim(value.s) # <<>>

\* C12 as stated: a record whose manufacturer, model, year and starting price
\* are present and in range is valid and scores at least 65.
C12_CoreFieldsScore ==
    (/\ lastResult # NoResult /\ ~revalidated
     /\ PresentString(Get(lastInput, "manufacturer"))
     /\ PresentString(Get(lastInput, "model"))
     /\ NumberWithin(Get(lastInput, "year"), MinYear, currentYear + YearsAhead)
     /\ NumberWithin(GetIn(Get(lastInput, "price"), "starting_msrp"), 1, MaxPrice))
        => lastResult.valid /\ lastResult.score >= 65

\* the features of the first n fragments tried, one list after the other
RECURSIVE featuresUpTo(_)
featuresUpTo(n) ==
    IF n = 0 THEN <<>>
    ELSE featuresUpTo(n - 1) \o itemsOf(Get(tried[n].fragment, "features"))

\* the place where x is first seen in a list
FirstIndex(list, x) ==
    CHOOSE i \in 1..Len(list) : list[i] = x /\ \A j \in 1..(i - 1) : list[j] # x

NestedFields ==
    {"price", "performance", "specifications", "dimensions", "fuel_economy",
     "safety_ratings"}

\* the fragments tried that set a key of a nested object
Setters(field, key) ==
    {i \in 1..Len(tried) : key \in DOMAIN spread(Get(tried[i].fragment, field))}

Latest(indices) == CHOOSE i \in indices : \A j \in indices : j <= i

\* C15: the features of the merged record are the union of the fragments'
\* features, without duplicates, in first-seen order; in each nested object
\* every key has the value of the latest fragment that sets it, so a key a
\* later fragment sets is overwritten and a key it does not set is kept.
C15_OverwriteUnion ==
    carDetails # EmptyObject =>
        LET result == itemsOf(Get(carDetails, "features"))
            all == featuresUpTo(Len(tried))
        IN /\ \A i, j \in 1..Len(result) : i # j => result[i] # result[j]
           /\ {result[i] : i \in 1..Len(result)} = {all[i] : i \in 1..Len(all)}
           /\ \A i, j \in 1..Len(result) :
                  i < j => FirstIndex(all, result[i]) < FirstIndex(all, result[j])
           /\ \A field \in NestedFields :
                  LET object == spread(Get(carDetails, field))
                  IN /\ DOMAIN object =
                            {key \in {"starting_msrp", "max_price", "horsepower",
                                      "torque", "overall"} : Setters(field, key) # {}}
                     /\ \A key \in DOMAIN object :
                            object[key] =
                                spread(Get(tried[Latest(Setters(field, key))].fragment,
                                           field))[key]

\* A = [sunroof] then B = [navigation, sunroof] gave [sunroof, navigation];
\* B overwrote the starting price of A and kept A's maximum price
C15_Witness ==
    /\ Len(tried) = 2
    /\ Get(tried[1].fragment, "features") = Arr(<<Name("sunroof")>>)
    /\ Get(tried[2].fragment, "features") = Arr(<<Name("navigation"), Name("sunroof")>>)
    /\ Get(carDetails, "features") = Arr(<<Name("sunroof"), Name("navigation")>>)
    /\ Get(carDetails, "price") =
           Obj([starting_msrp |-> Num(30000), max_price |-> Num(30000)])

\* a source tried so far supplied a starting price
C14_Supplied ==
    \E i \in 1..Len(tried) :
        /\ tried[i].kind = "fragment"
        /\ Truthy(GetIn(Get(tried[i].fragment, "price"), "starting_msrp"))

\* C14: whatever each source gave (a fragment, nothing, a failure),
\* scrapeCarDetails went on to the remaining sources (it left the loop early
\* only on a record with both a price and a horsepower) and returned a record
\* with a starting price; is_estimated is true exactly when no source supplied
\* a starting price, and then the price is the manufacturer's estimate.
C14_AlwaysPriced ==
    detailPc = "returned" =>
        LET price == Get(carDetails, "price")
        IN /\ Truthy(GetIn(price, "starting_msrp"))
           /\ (GetIn(price, "is_estimated") = Bool(TRUE)) <=> ~C14_Supplied
           /\ ~C14_Supplied =>
                  GetIn(price, "starting_msrp")
                      = Num(IF Get(carDetails, "manufacturer") = Name("Toyota") THEN 28000
                            ELSE IF Get(carDetails, "manufacturer") = Name("BMW")
                                 THEN 55000 ELSE 35000)
           /\ \/ Len(tried) = sourceCount
              \/ /\ tried[Len(tried)].kind = "fragment"
                 /\ C14_Supplied
                 /\ Truthy(GetIn(Get(carDetails, "performance"), "horsepower"))

\* of two sources the first threw and the second gave no price: the record
\* came back with the estimate
C14_Witness ==
    /\ detailPc = "returned"
    /\ sourceCount = 2
    /\ Len(tried) = 2
    /\ tried[1].kind = "throw"
    /\ tried[2].kind = "fragment" /\ tried[2].fragment = EmptyObject
    /\ GetIn(Get(carDetails, "price"), "is_estimated") = Bool(TRUE)

\* the band the four thresholds give a price
BandOf(price) ==
    CASE price < 30000 -> "budget"
      [] price >= 30000 /\ price < 50000 -> "midrange"
      [] price >= 50000 /\ price < 80000 -> "premium"
      [] price >= 80000 -> "luxury"

\* positions of a sequence holding a value
Positions(seq, value) == {k \in 1..Len(seq) : seq[k] = value}

\* the advantages an entry lists are those where candidate j is strictly
\* greater than subject i
AdvantagesMatch(entry, i, j) ==
    LET listed == {entry.o.key_advantages.a[k] : k \in 1..Len(entry.o.key_advantages.a)}
        hp(c) == numberOrZero(GetIn(Get(c, "performance"), "horsepower"))
        mpg(c) == numberOrZero(GetIn(Get(c, "fuel_economy"), "combined"))
        count(c) == Len(itemsOf(Get(c, "features")))
    IN /\ Name("More horsepower") \in listed <=> hp(allCars[j]) > hp(allCars[i])
       /\ Name("More features") \in listed <=> count(allCars[j]) > count(allCars[i])
       /\ Name("Better fuel economy") \in listed <=> mpg(allCars[j]) > mpg(allCars[i])
       /\ listed \subseteq {Name("More horsepower"), Name("More features"),
                            Name("Better fuel economy")}

FetchInFlight == runPc = "details" /\ detailPc = "source"

\* C13: while a source fetch for a model is in flight, the rate limiter has
\* admitted it: a request is counted active and its timestamp is recorded
C13_FetchIsGated ==
    FetchInFlight => activeRequests >= 1 /\ requestTimestamps # <<>>

\* C16: a run whose input validateInput rejects has failed without starting:
\* no session, no logged event, no manufacturer visited, no record, no
\* checkpoint and no output
C16_InvalidInputNeverStarts ==
    (runPc # "idle" /\ validateInputErrors(input) # <<>>) =>
        /\ runPc = "failed"
        /\ sessionId = "null"
        /\ auditLog = <<>>
        /\ mIdx = 0
        /\ visits = <<>>
        /\ allCars = <<>>
        /\ progress = <<>>
        /\ output = <<>>

\* C16 witness: a run given an unknown country code has failed
C16_Witness ==
    /\ runPc = "failed"
    /\ validateInputErrors(input) = <<"Invalid country code">>

\* the total of accepted records before loop iteration i
TotalBefore(i) == IF i = 1 THEN 0 ELSE visits[i - 1].total

\* C17: the run is never aborted by a manufacturer's failure; the visited
\* manufacturers are the input list in order; each manufacturer whose
\* scraping failed has its manufacturer_error event and added no record; and
\* the loop is left only with the list exhausted or the cap reached
C17_ScrapeFailureSkipsOne ==
    /\ runPc # "crashed"
    /\ \A i \in 1..Len(visits) :
          /\ visits[i].manufacturer = manufacturersOf(input)[i]
          /\ visits[i].outcome = "scrape_error" => visits[i].total = TotalBefore(i)
    /\ countType(auditLog, "manufacturer_error")
          = Cardinality({i \in 1..Len(visits) : visits[i].outcome # "collected"})
    /\ runPc \in {"push", "done"} =>
          \/ Len(visits) = Len(manufacturersOf(input))
          \/ capReached(input, processedCount)

\* C17 witness: a finished run whose first manufacturer failed and whose
\* second gave an accepted record
C17_Witness ==
    /\ runPc = "done"
    /\ Len(visits) = 2
    /\ visits[1].outcome = "scrape_error"
    /\ visits[2].outcome = "collected"
    /\ visits[2].total = 1
    /\ Get(allCars[1], "manufacturer") = Name("BMW")
    /\ countType(auditLog, "manufacturer_error") = 1

\* C18: no output holds more accepted records than the configured maxResults
C18_CapIsHard ==
    \A i \in 1..Len(output) :
        input.maxResults.t = "num" => Len(output[i].data) <= input.maxResults.v

\* the one record a manufacturer yielded had this starting price on the page
YieldedOne(visit, price) ==
    /\ visit.outcome = "collected"
    /\ Len(visit.found) = 1
    /\ GetIn(Get(visit.found[1], "price"), "starting_msrp") = Num(price)
    /\ GetIn(Get(visit.found[1], "price"), "is_estimated") = Undef

\* C19: in a finished run with includeCompetitors whose two manufacturers
\* each yielded one valid record, priced 25000 and 85000, the two records
\* are in different price bands and both competitor lists are empty
C19_TwoBandsNoCompetitors ==
    (/\ runPc = "done"
     /\ Truthy(input.includeCompetitors)
     /\ Len(visits) = 2
     /\ Len(allCars) = 2
     /\ \/ YieldedOne(visits[1], 25000) /\ YieldedOne(visits[2], 85000)
        \/ YieldedOne(visits[1], 85000) /\ YieldedOne(visits[2], 25000)) =>
        /\ \A band \in Bands : Len(priceGroups[band]) <= 1
        /\ \A i \in 1..2 : Get(allCars[i], "competitors") = Arr(<<>>)

\* the security score as the report of a finished call holds it
ReportedScore == output[1].metadata.security_audit

\* C21: the reported security score is max(0, 100 - 5 per incident - 10 when
\* blocked/requests exceeds 10% - 20 more when it exceeds 30%), with no
\* block-rate deduction at zero requests, and so lies within 0..100
C21_SecurityScore ==
    (runPc = "done" /\ output # <<>>) =>
        LET a == ReportedScore
            over10 == a.requests > 0 /\ 10 * a.blocked > a.requests
            over30 == a.requests > 0 /\ 10 * a.blocked > 3 * a.requests
            expected == 100 - 5 * a.incidents - (IF over10 THEN 10 ELSE 0)
                            - (IF over30 THEN 20 ELSE 0)
        IN /\ a.score = IF expected < 0 THEN 0 ELSE expected
           /\ a.score \in 0..100
           /\ (a.incidents = 0 /\ a.blocked = 0 /\ a.requests = 10) => a.score = 100
           /\ (a.incidents = 3 /\ a.blocked = 0) => a.score = 85

\* C21 witness: 3 incidents with nothing blocked of 10 requests score 85
C21_Witness ==
    /\ runPc = "done"
    /\ output # <<>>
    /\ ReportedScore.incidents = 3
    /\ ReportedScore.requests = 10
    /\ ReportedScore.blocked = 0
    /\ ReportedScore.score = 85

\* the call of caller c is not in flight
Finished(c) == pc[c] \in {"idle", "returned", "threw"}

\* C22: with several execute() calls interleaving at their awaits, the check
\* and the admission are one step: activeRequests counts exactly the calls
\* whose task is running, never exceeds config.concurrentRequests, and is 0
\* again once every call has finished.
C22_ActiveWithinCeiling ==
    /\ activeRequests = Cardinality({c \in Callers : pc[c] = "task"})
    /\ activeRequests <= config.concurrentRequests
    /\ (\A c \in Callers : Finished(c)) => activeRequests = 0

\* C22 witness: one call holds the only slot while the other one waits in its poll delay
C22_Witness ==
    \E c, d \in Callers :
        /\ pc[c] = "task"
        /\ pc[d] = "delay"
        /\ activeRequests = config.concurrentRequests

\* the admissions of the trailing minute: execute() alone appends to
\* requestTimestamps here, and only entries older than the window are pruned
windowCount(ts, t) == Len(recentTimestamps(ts, t))

\* C23: as long as config.requestsPerMinute is not changed, the number of
\* requests execute() admitted within the trailing 60 seconds never comes to
\* exceed it: no step that leaves the ceiling alone takes the count of the
\* window from within the ceiling to above it.
C23_WindowWithinCeiling ==
    [][(/\ config'.requestsPerMinute = config.requestsPerMinute
        /\ windowCount(requestTimestamps, now) * RpmScale <= config.requestsPerMinute)
       => windowCount(requestTimestamps', now') * RpmScale <= config.requestsPerMinute]_vars

\* C24: every execute() call is eventually admitted, its poll loop ends,
\* when the clock keeps advancing, every admitted task settles and both
\* ceilings are at least 1, also while another caller competes for the slot.
C24_EveryCallAdmitted ==
    \A c \in Callers : (pc[c] = "delay") ~> (pc[c] = "task")

\* both fields the early stop looks at hold a value that counts in JavaScript
BothPopulated(c) ==
    /\ Truthy(GetIn(Get(c, "price"), "starting_msrp"))
    /\ Truthy(GetIn(Get(c, "performance"), "horsepower"))

\* C25: scrapeCarDetails awaits the sources one after the other in the order
\* of the list; whenever a source is awaited the record accumulated from the
\* earlier ones lacks a starting price or a horsepower, and it returns before
\* the end of the list only with both of them.
C25_InOrderUntilGood ==
    /\ detailPc = "source" =>
           /\ sourceIdx = Len(tried) + 1
           /\ sourceIdx <= sourceCount
           /\ ~BothPopulated(carDetails)
    /\ detailPc = "returned" =>
           /\ Len(tried) = sourceIdx
           /\ Len(tried) < sourceCount => BothPopulated(carDetails)

\* C25 witness: the first of two sources gave a price and a horsepower, and
\* the second was never awaited
C25_Witness ==
    /\ detailPc = "returned"
    /\ sourceCount = 2
    /\ Len(tried) = 1
    /\ tried[1].kind = "fragment"
    /\ BothPopulated(tried[1].fragment)

\* the record is, field by field, the data of a valid result validateCarData
\* produced in this run
IsValidatedData(record) ==
    \E key \in DOMAIN validationCache :
        /\ validationCache[key].valid
        /\ \A field \in DOMAIN validationCache[key].data :
               Get(record, field) = validationCache[key].data[field]

RECURSIVE streakMultiplier(_)
\* 1.5 to the power k, capped at 10, in units of 1/BackoffScale
streakMultiplier(k) ==
    IF k = 0 THEN BackoffScale
    ELSE Min(10 * BackoffScale, (streakMultiplier(k - 1) * 3) \div 2)

\* C27: backoffMultiplier grows by the factor 1.5 once per failure of the
\* streak and is capped at 10: after k consecutive failures it is
\* min(10, 1.5^k), however often calculateDelay() or getStats() was called in
\* between; it stays within 1..10 and is 1 again after a success.
C27_BackoffFollowsStreak ==
    /\ backoffMultiplier = streakMultiplier(consecutiveFailures)
    /\ backoffMultiplier >= BackoffScale
    /\ backoffMultiplier <= 10 * BackoffScale

\* the fields whose weight counts only for an object with at least one key
KeyedFields == {"price", "performance", "specifications", "dimensions"}

RECURSIVE weighed(_, _)
\* the weights of the fields that are present and truthy and, the object-typed
\* ones, not empty
weighed(carData, i) ==
    IF i > Len(Weights) THEN 0
    ELSE LET value == Get(carData, Weights[i].field)
             counts == /\ Truthy(value)
                       /\ Weights[i].field \in KeyedFields => HasKeys(value)
         IN (IF counts THEN Weights[i].weight ELSE 0) + weighed(carData, i + 1)

\* C28: the validation score is the sum, capped at 100, of the weights
\* (15/15/10/20/15/10/10/5) of the fields that are present and truthy; price,
\* performance, specifications and dimensions count only as objects with at
\* least one key, so that an empty object adds nothing.
C28_EmptyObjectsAddNothing ==
    lastResult # NoResult => lastResult.score = Min(100, weighed(lastResult.data, 1))

\* C29: canMakeRequest() only answers: a call leaves requestTimestamps,
\* activeRequests, consecutiveFailures, backoffMultiplier and config as they
\* were.
C29_CheckChangesNothing ==
    [][canMakeRequest =>
          UNCHANGED <<requestTimestamps, activeRequests, consecutiveFailures,
                      backoffMultiplier, config>>]_vars

\* x <= y of two JavaScript numbers, either of which may be infinite
AtMost(x, y) ==
    CASE x.t = "-inf" -> TRUE
      [] y.t = "inf" -> TRUE
      [] x.t = "num" /\ y.t = "num" -> x.v <= y.v
      [] OTHER -> FALSE

\* the records of a report that have a known positive starting price
Priced(list) == SelectSeq(list, LAMBDA car : priceOrZero(car) > 0)

\* C30: in every final report price_statistics counts the accepted records
\* with a known positive starting price and has min <= average <= max, also
\* when no accepted record has a known price.
C30_PriceStatisticsOrdered ==
    \A i \in 1..Len(output) :
        LET stats == output[i].metadata.price_statistics
        IN /\ stats.count = Len(Priced(output[i].data))
           /\ AtMost(stats.min, Num(stats.average))
           /\ AtMost(Num(stats.average), stats.max)

====
